---- MODULE Spec2Model ----
(***************************************************************************)
(* The Optimistic Diff engine of openstreetmap-ng: a batch of element      *)
(* mutations is prepared against a snapshot of the versioned element store *)
(* and applied in one transaction under an exclusive table lock            *)
(* (app/services/optimistic_diff/apply.py).                                *)
(***************************************************************************)
EXTENDS Integers, Sequences, FiniteSets, TLC

(***************************************************************************)
(* Bounds of the model.                                                    *)
(***************************************************************************)
\* total number of prepare calls (requests) over all processes
MaxApplies == 2
\* largest number of drafts in one batch
MaxBatch == 2
\* largest version a draft may declare
MaxVersion == 3
\* last clock reading
MaxClock == 3
\* scaled-down size limit of a changeset (role-dependent in the program)
MaxSize == 3
\* number of retries a caller makes after a conflict, beyond MaxApplies
MaxRetries == 1
\* number of queries the reader runs
MaxReads == 1
\* largest number of actions in an osmChange document
MaxActions == 2
\* largest number of entries of an action
MaxElements == 2
\* largest version an element of an osmChange document declares
MaxDeclared == 1
\* largest number of refs in a call of find_many_by_refs
MaxFindRefs == 2
\* largest value written to the watched attribute
MaxWatch == 3
\* total number of prepare calls of the callers of one changeset
MaxPrepares == 3

Procs == {"p1", "p2"}
NoProc == "none"
Types == {"node", "way"}
ChangesetIds == {1, 2}
\* SQL NULL / Python None for sequence ids, versions and times (all of which are >= 1 when set)
Null == 0

Max(S) == CHOOSE x \in S : \A y \in S : y <= x
Min(S) == CHOOSE x \in S : \A y \in S : x <= y
Range(s) == {s[i] : i \in DOMAIN s}

(***************************************************************************)
(* Data model.                                                             *)
(***************************************************************************)
ElementRef(type, id) == <<type, id>>
VersionedElementRef(type, id, version) == <<type, id, version>>

VARIABLES
    element,            \* committed rows of the element table
    element_member,     \* committed rows of the element_member table
    changeset,          \* committed rows of the changeset table, by id
    clock,              \* the last value returned by utcnow()
    lock,               \* holder of the EXCLUSIVE table lock, or NoProc
    applies,            \* number of prepare calls made so far
    pc,                 \* position of each request
    prepare,            \* the OptimisticDiffPrepare object of each request
    assigned_ref_map,   \* apply(): element_ref -> positions of its elements in the batch
    now,                \* apply(): the commit time read after the lock
    task,               \* apply(): state of the four tasks of the TaskGroup
    local,              \* _update_elements(): its local variables
    session,            \* the uncommitted writes of the request's transaction
    outcome,            \* how the request ended, with the error message and the returned map
    pre,                \* the committed store and the Prepare Result when the request
                        \* acquired the lock (history)
    reader,             \* the last point-in-time query of a plain reader and its result
    changes,            \* an osmChange document handed to decode_osmchange
    decoded,            \* what decode_osmchange made of it
    logical,            \* a logical read of the repository that is made of several queries
    instance            \* an object with updating_cached_property attributes

\* the state of the engine's collaborators
collaborators == <<reader, changes, decoded, logical, instance>>

vars == <<element, element_member, changeset, clock, lock, applies, pc, prepare,
          assigned_ref_map, now, task, local, session, outcome, pre, collaborators>>

(***************************************************************************)
(* Queries on a store (the committed one, or a transaction's view).        *)
(***************************************************************************)
RowsOf(E, ref) == {r \in E : r.type = ref[1] /\ r.id = ref[2]}

\* the current (not superseded) revision of ref, as a set of at most one row
CurrentOf(E, ref) == {r \in RowsOf(E, ref) : r.next_sequence_id = Null}

\* member list of the revision with the given sequence_id, as a set of refs
MemberRefs(M, sequence_id) ==
    {ElementRef(m.type, m.id) : m \in {x \in M : x.sequence_id = sequence_id}}

get_current_sequence_id(E) ==
    IF E = {} THEN 0 ELSE Max({r.sequence_id : r \in E})

get_current_ids(E) ==
    [t \in Types |-> IF {r \in E : r.type = t} = {} THEN 0
                     ELSE Max({r.id : r \in {x \in E : x.type = t}})]

\* no row named by versioned_refs has been superseded
check_is_latest(E, versioned_refs) ==
    ~ \E r \in E :
        /\ VersionedElementRef(r.type, r.id, r.version) \in versioned_refs
        /\ r.next_sequence_id # Null

\* no member row written after after_sequence_id names one of element_refs
check_is_unreferenced(M, element_refs, after_sequence_id) ==
    ~ \E m \in M :
        /\ m.sequence_id > after_sequence_id
        /\ ElementRef(m.type, m.id) \in element_refs

get_updated_at_by_ids(C, changeset_id) == C[changeset_id].updated_at

\* the time at which a revision stopped being current: the created_at of the revision
\* its next_sequence_id names, null while it is current
superseded_at(E, r) ==
    IF r.next_sequence_id = Null THEN Null
    ELSE LET next == {x \in E : x.sequence_id = r.next_sequence_id}
         IN  IF next = {} THEN Null ELSE (CHOOSE x \in next : TRUE).created_at

\* ElementRepository.get_many_latest_by_typed_refs, lines 150-161: the revisions of
\* typed_refs that are valid at point_in_time
get_many_latest_by_typed_refs(E, typed_refs, point_in_time) ==
    {r \in E :
        /\ r.created_at <= point_in_time
        /\ (superseded_at(E, r) = Null \/ superseded_at(E, r) > point_in_time)
        /\ ElementRef(r.type, r.id) \in typed_refs}

\* ElementRepository.get_many_latest_by_typed_refs with recurse_ways, lines 163-185: the
\* union, in one statement at one time point, with the nodes that are members of the
\* ways of typed_refs valid at point_in_time
get_many_latest_recurse_ways(E, M, typed_refs, point_in_time) ==
    LET recurse_way_refs == {ref \in typed_refs : ref[1] = "way"}
        ways == get_many_latest_by_typed_refs(E, recurse_way_refs, point_in_time)
        ids  == UNION {{m.id : m \in {x \in M : x.sequence_id = w.sequence_id}} : w \in ways}
    IN  get_many_latest_by_typed_refs(E, typed_refs, point_in_time)
            \cup get_many_latest_by_typed_refs(E, {ElementRef("node", i) : i \in ids},
                                               point_in_time)

\* ElementRepository.get_many_by_versioned_refs, lines 68-78
get_many_by_versioned_refs(E, versioned_refs) ==
    {r \in E : VersionedElementRef(r.type, r.id, r.version) \in versioned_refs}

\* stmt.limit(limit): the results a statement without ORDER BY may give
Limited(rows, limit) ==
    IF limit = Null \/ Cardinality(rows) <= limit THEN {rows}
    ELSE {sub \in SUBSET rows : Cardinality(sub) = limit}

\* the entry of find_many_by_refs for a ref that was not found
None ==
    [type |-> "none", id |-> 0, version |-> 0, visible |-> FALSE, changeset_id |-> 0,
     created_at |-> 0, sequence_id |-> 0, next_sequence_id |-> 0]

IsVersioned(ref) == Len(ref) = 3

\* variant: an element found is always appended
CollectByRefsKeepingDuplicates(refs, ref_map, limit) ==
    LET result == [i \in DOMAIN refs |->
                      IF refs[i] \in DOMAIN ref_map THEN ref_map[refs[i]] ELSE None]
    IN  IF limit = Null THEN result
        ELSE SubSeq(result, 1, IF Len(result) < limit THEN Len(result) ELSE limit)

\* find_many_by_refs, lines 237-256: the entries in the order of refs, an element that
\* was already appended being skipped, cut at limit
CollectByRefs(refs, ref_map, limit) ==
    LET RECURSIVE Collect(_, _, _)
        Collect(i, result, result_versioned_ref_set) ==
            IF i > Len(refs) THEN result
            ELSE IF refs[i] \notin DOMAIN ref_map
                 THEN Collect(i + 1, Append(result, None), result_versioned_ref_set)
                 ELSE LET el == ref_map[refs[i]]
                          versioned_ref == VersionedElementRef(el.type, el.id, el.version)
                      IN  IF versioned_ref \in result_versioned_ref_set
                          THEN Collect(i + 1, result, result_versioned_ref_set)
                          ELSE Collect(i + 1, Append(result, el),
                                       result_versioned_ref_set \cup {versioned_ref})
        result == Collect(1, <<>>, {})
    IN  IF limit = Null THEN result
        ELSE SubSeq(result, 1, IF Len(result) < limit THEN Len(result) ELSE limit)

(***************************************************************************)
(* Mutation drafts handed to the engine by its callers.                    *)
(***************************************************************************)
DraftIds == {-2, -1, 1}

\* member lists a way draft may carry (nodes only, as _decode_nodes builds them)
MemberLists == {<<>>} \cup {<<ElementRef("node", i)>> : i \in {-1, 1}}

Draft(type, id, version, visible, members) ==
    [type |-> type, id |-> id, version |-> version, visible |-> visible, members |-> members]

\* a create is visible and names a placeholder (decode_osmchange, lines 112-120), a new
\* way has a member, only node -1 is touched again after its create, a way is updated
\* once, a delete carries no members, a node has none
ValidDraft(d) ==
    /\ d.type = "node" => d.members = <<>>
    /\ d.type = "way" => d.id # -2 /\ d.version <= 2
    /\ d.version = 1 => d.visible /\ d.id < 0
    /\ d.version = 1 /\ d.type = "way" => d.members # <<>>
    /\ d.id < 0 /\ d.version > 1 =>
           d.version = 2 /\ d.visible /\ d.type = "node" /\ d.id = -1
    /\ ~d.visible => d.members = <<>>

Drafts ==
    {d \in {Draft(t, i, v, vis, ms) :
                t \in Types, i \in DraftIds, v \in 1..MaxVersion, vis \in BOOLEAN,
                ms \in MemberLists} : ValidDraft(d)}

\* the later draft builds on the earlier one: it touches the same element again, names
\* its placeholder as a member, is a second new node, or deletes a node the earlier
\* draft (a way) may have un-referenced
Related(d1, d2) ==
    \/ d1.type = d2.type /\ d1.id = d2.id
    \/ d1.id < 0 /\ ElementRef(d1.type, d1.id) \in Range(d2.members)
    \/ d1.version = 1 /\ d2.version = 1 /\ d1.type = "node" /\ d2.type = "node"
    \/ d1.type = "way" /\ d1.id > 0 /\ d2.type = "node" /\ ~d2.visible

Batches ==
    {b \in UNION {[1..n -> Drafts] : n \in 0..MaxBatch} :
        \A i \in 1..(Len(b) - 1) : Related(b[i], b[i + 1])}

\* the batches of the callers that retry: one draft at most
SmallBatches == {b \in Batches : Len(b) <= 1}

\* the batches of the callers of one changeset: nothing staged, a new node, or way 1
\* updated to a revision without members
TinyBatches ==
    {<<>>, <<Draft("node", -1, 1, TRUE, <<>>)>>, <<Draft("way", 1, 2, TRUE, <<>>)>>}

\* the sets of refs a reader asks for
ReadRefs ==
    {{ElementRef("node", 1)}, {ElementRef("way", 1), ElementRef("node", 2)}}

\* the refs a caller of find_many_by_refs names: with a version or without
FindRefPool ==
    {ElementRef("node", 1), ElementRef("way", 1),
     VersionedElementRef("node", 1, 1), VersionedElementRef("node", 1, 2)}

\* the parsed query of elements_read_many, lines 186-199: refs in order, none twice
FindRefs ==
    {refs \in UNION {[1..n -> FindRefPool] : n \in 0..MaxFindRefs} :
        \A i, j \in DOMAIN refs : i # j => refs[i] # refs[j]}

\* the limits a caller passes: none, or one entry
FindLimits == {Null, 1}

\* the changesets a request may edit in: the first requester has one open changeset,
\* the second may share it or use its own
Changesets(p) == IF p = "p1" THEN {1} ELSE ChangesetIds

(***************************************************************************)
(* osmChange documents and their decoding (app/format/api06_element.py).   *)
(***************************************************************************)
\* an entry of an action: the data of an element, or the @if-unused attribute
ElementData(key, id, has_version, version, visible) ==
    [key |-> key, id |-> id, has_version |-> has_version, version |-> version,
     visible |-> visible]

IfUnused == ElementData("@if-unused", 0, FALSE, 0, TRUE)

ElementDatas ==
    {ElementData("node", i, TRUE, v, vis) :
        i \in {-1, 0, 1}, v \in 0..MaxDeclared, vis \in BOOLEAN}
    \cup {ElementData("node", i, FALSE, 0, vis) : i \in {-1, 0, 1}, vis \in BOOLEAN}

\* an action of the document: its name and its elements, or (attrs_only) the name and
\* a dict of attributes; a name that starts with @ is an attribute of the document
OSMChangeActions == {"create", "modify", "delete", "replace", "@version"}

\* the actions with at most n entries; @if-unused occurs in a delete action only
ActionBlocks(n) ==
    {b \in [action : OSMChangeActions, attrs_only : BOOLEAN,
            elements_data : UNION {[1..k -> ElementDatas \cup {IfUnused}] : k \in 0..n}] :
        /\ b.attrs_only \/ b.action = "@version" => b.elements_data = <<>>
        /\ b.action # "delete" => \A i \in DOMAIN b.elements_data : b.elements_data[i] # IfUnused}

\* the documents: one action with up to MaxElements entries, or several shorter ones
OsmChanges ==
    UNION {[1..n -> ActionBlocks(IF n = 1 THEN MaxElements ELSE MaxElements - 1)] :
              n \in 0..MaxActions}

\* variant: the declared version is taken as the version of the draft
decode_element_as_declared(key, data) ==
    [type |-> key, id |-> data.id,
     version |-> IF data.has_version THEN data.version ELSE 0,
     visible |-> data.visible, delete_if_unused |-> FALSE]

\* _decode_element, lines 311-324
decode_element(key, data) ==
    [type |-> key, id |-> data.id,
     version |-> (IF data.has_version THEN data.version ELSE 0) + 1,
     visible |-> data.visible, delete_if_unused |-> FALSE]

\* decode_osmchange, lines 112-150: one entry of an action, acc being the drafts so far
DecodeEntry(acc, action, data) ==
    IF acc.raised THEN acc
    ELSE IF action = "create"
    THEN LET el == decode_element(data.key, [data EXCEPT !.has_version = TRUE, !.version = 0])
         IN  IF el.id > 0 THEN [acc EXCEPT !.raised = TRUE]
             ELSE [acc EXCEPT !.result = Append(@, el)]
    ELSE IF action = "modify"
    THEN LET el == decode_element(data.key, data)
         IN  IF el.version <= 1 THEN [acc EXCEPT !.raised = TRUE]
             ELSE [acc EXCEPT !.result = Append(@, el)]
    ELSE IF data.key = "@if-unused" THEN [acc EXCEPT !.delete_if_unused = TRUE]
    ELSE LET el == decode_element(data.key, [data EXCEPT !.visible = FALSE])
         IN  IF el.version <= 1 THEN [acc EXCEPT !.raised = TRUE]
             ELSE [acc EXCEPT !.result =
                      Append(@, [el EXCEPT !.delete_if_unused = acc.delete_if_unused])]

RECURSIVE DecodeEntries(_, _, _, _)
DecodeEntries(acc, action, elements_data, i) ==
    IF i > Len(elements_data) THEN acc
    ELSE DecodeEntries(DecodeEntry(acc, action, elements_data[i]), action, elements_data,
                       i + 1)

\* decode_osmchange, lines 104-150: one action of the document
DecodeAction(acc, b) ==
    IF acc.raised THEN acc
    ELSE IF b.action = "@version" THEN acc
    ELSE IF b.attrs_only THEN acc
    ELSE IF b.action \in {"create", "modify", "delete"}
    THEN DecodeEntries([acc EXCEPT !.delete_if_unused = FALSE], b.action,
                       b.elements_data, 1)
    ELSE [acc EXCEPT !.raised = TRUE]

RECURSIVE DecodeActions(_, _, _)
DecodeActions(acc, c, i) ==
    IF i > Len(c) THEN acc
    ELSE DecodeActions(DecodeAction(acc, c[i]), c, i + 1)

\* decode_osmchange: the drafts, or raised and no draft
decode_osmchange(c) ==
    LET acc == DecodeActions([raised |-> FALSE, result |-> <<>>, delete_if_unused |-> FALSE],
                             c, 1)
    IN  [done |-> TRUE, raised |-> acc.raised,
         result |-> IF acc.raised THEN <<>> ELSE acc.result]

(***************************************************************************)
(* Diff Preparer (spec section 4.1).                                       *)
(***************************************************************************)
\* the revision of ref a draft is based on: the batch's own, else the snapshot's current one
PrevOf(E, M, loc, ref) ==
    IF ref \in DOMAIN loc THEN {loc[ref]}
    ELSE {[version |-> r.version, visible |-> r.visible, remote |-> TRUE,
           members |-> MemberRefs(M, r.sequence_id)] : r \in CurrentOf(E, ref)}

\* ref is a member of the current revision of some element, batch-local changes applied
IsReferenced(E, M, loc, ref) ==
    \/ \E w \in DOMAIN loc : ref \in loc[w].members
    \/ \E r \in E :
        /\ r.next_sequence_id = Null
        /\ ElementRef(r.type, r.id) \notin DOMAIN loc
        /\ ref \in MemberRefs(M, r.sequence_id)

PrepareDraft(E, M, acc, e) ==
    LET ref    == ElementRef(e.type, e.id)
        create == e.version = 1
        prev   == PrevOf(E, M, acc.loc, ref)
        p      == CHOOSE x \in prev : TRUE
        mrefs  == Range(e.members)
        ok     == /\ IF create
                     THEN e.id < 0 /\ ref \notin DOMAIN acc.loc
                     ELSE prev # {} /\ p.version + 1 = e.version
                  /\ \A m \in mrefs : m[2] < 0 => m \in DOMAIN acc.loc
                  /\ ~e.visible => ~IsReferenced(E, M, acc.loc, ref)
    IN  IF ~ok THEN [acc EXCEPT !.ok = FALSE]
        ELSE [ok |-> TRUE,
              loc |-> (ref :> [version |-> e.version, visible |-> e.visible,
                               remote |-> FALSE, members |-> mrefs]) @@ acc.loc,
              element_state |->
                  IF ref \in DOMAIN acc.element_state THEN acc.element_state
                  ELSE (ref :> [remote |-> IF create THEN Null ELSE p.version])
                       @@ acc.element_state,
              refs |-> acc.refs
                       \cup (IF e.visible THEN {} ELSE {ref})
                       \cup (IF create THEN {} ELSE p.members \ mrefs)]

RECURSIVE PrepareDrafts(_, _, _, _, _)
PrepareDrafts(E, M, drafts, i, acc) ==
    IF i > Len(drafts) \/ ~acc.ok THEN acc
    ELSE PrepareDrafts(E, M, drafts, i + 1, PrepareDraft(E, M, acc, drafts[i]))

ElementMember(order, type, id) ==
    [order |-> order, type |-> type, id |-> id, sequence_id |-> Null]

Element(e, changeset_id) ==
    [type |-> e.type, id |-> e.id, version |-> e.version, visible |-> e.visible,
     changeset_id |-> changeset_id,
     members |-> [k \in DOMAIN e.members |->
                     ElementMember(k - 1, e.members[k][1], e.members[k][2])],
     created_at |-> Null, sequence_id |-> Null, next_sequence_id |-> Null]

\* prepare.changeset is None
NoChangeset == [id |-> Null, updated_at |-> Null, closed_at |-> Null, size |-> 0]

NoPrepare ==
    [apply_elements |-> <<>>, element_state |-> <<>>, reference_check_element_refs |-> {},
     at_sequence_id |-> 0,
     changeset |-> NoChangeset]

\* the Prepare Result of a batch accepted against the snapshot (E, M, C)
OptimisticDiffPrepare(E, M, C, drafts, changeset_id) ==
    LET acc == PrepareDrafts(E, M, drafts, 1,
                   [ok |-> TRUE, loc |-> <<>>, element_state |-> <<>>, refs |-> {}])
    IN  [ok |-> acc.ok,
         apply_elements |->
             [i \in DOMAIN drafts |->
                 [element |-> Element(drafts[i], changeset_id),
                  element_ref |-> ElementRef(drafts[i].type, drafts[i].id)]],
         element_state |-> acc.element_state,
         reference_check_element_refs |-> acc.refs,
         at_sequence_id |-> get_current_sequence_id(E),
         changeset |-> IF changeset_id = Null THEN NoChangeset
                       ELSE [C[changeset_id] EXCEPT !.size = @ + Len(drafts)]]

(***************************************************************************)
(* Diff Applier: pure parts of apply.py.                                   *)
(***************************************************************************)
\* apply(), lines 36-38: element_ref -> its elements, as positions in apply_elements
BuildAssignedRefMap(apply_elements) ==
    LET refs == {apply_elements[i].element_ref : i \in DOMAIN apply_elements}
        RECURSIVE Positions(_, _)
        Positions(ref, i) ==
            IF i > Len(apply_elements) THEN <<>>
            ELSE IF apply_elements[i].element_ref = ref
                 THEN <<i>> \o Positions(ref, i + 1)
                 ELSE Positions(ref, i + 1)
    IN  [ref \in refs |-> Positions(ref, 1)]

\* variant: the version the batch writes is checked instead of the one it observed
VersionedRefsOfLocal(element_state) ==
    {VersionedElementRef(ref[1], ref[2], element_state[ref].remote + 1) :
        ref \in {x \in DOMAIN element_state : element_state[x].remote # Null}}

\* _check_elements_latest(), lines 75-79
VersionedRefs(element_state) ==
    {VersionedElementRef(ref[1], ref[2], element_state[ref].remote) :
        ref \in {x \in DOMAIN element_state : element_state[x].remote # Null}}

\* Changeset.auto_close_on_size
auto_close_on_size(cs, at) ==
    IF cs.closed_at = Null /\ cs.size > MaxSize THEN [cs EXCEPT !.closed_at = at] ELSE cs

\* variant: a previous revision outside the batch is never queued for the linking update
ProcessElementNoRemoteLink(st, i, sequence_id, at) ==
    LET el          == st.elements[i].element
        element_ref == st.elements[i].element_ref
        prev        == IF element_ref \in DOMAIN st.prev_map THEN st.prev_map[element_ref] ELSE 0
        known       == element_ref \in DOMAIN st.assigned_id_map
        assigned_id == IF known THEN st.assigned_id_map[element_ref]
                       ELSE st.current_id_map[el.type] + 1
        stamped     == [st.elements EXCEPT ![i].element.sequence_id = sequence_id,
                                           ![i].element.created_at = at]
        linked      == IF prev # 0
                       THEN [stamped EXCEPT ![prev].element.next_sequence_id = sequence_id]
                       ELSE stamped
    IN  [elements |->
             IF el.id < 0 THEN [linked EXCEPT ![i].element.id = assigned_id] ELSE linked,
         update_type_ids |-> st.update_type_ids,
         prev_map |-> (element_ref :> i) @@ st.prev_map,
         assigned_id_map |->
             IF el.id < 0 /\ ~known
             THEN (element_ref :> assigned_id) @@ st.assigned_id_map
             ELSE st.assigned_id_map,
         current_id_map |->
             IF el.id < 0 /\ ~known
             THEN [st.current_id_map EXCEPT ![el.type] = assigned_id]
             ELSE st.current_id_map]

\* variant: the per-type counter is not advanced after an assignment
ProcessElementStaleCounter(st, i, sequence_id, at) ==
    LET el          == st.elements[i].element
        element_ref == st.elements[i].element_ref
        prev        == IF element_ref \in DOMAIN st.prev_map THEN st.prev_map[element_ref] ELSE 0
        known       == element_ref \in DOMAIN st.assigned_id_map
        assigned_id == IF known THEN st.assigned_id_map[element_ref]
                       ELSE st.current_id_map[el.type] + 1
        stamped     == [st.elements EXCEPT ![i].element.sequence_id = sequence_id,
                                           ![i].element.created_at = at]
        linked      == IF prev # 0
                       THEN [stamped EXCEPT ![prev].element.next_sequence_id = sequence_id]
                       ELSE stamped
    IN  [elements |->
             IF el.id < 0 THEN [linked EXCEPT ![i].element.id = assigned_id] ELSE linked,
         update_type_ids |->
             IF prev = 0 /\ el.version > 1
             THEN [st.update_type_ids EXCEPT ![el.type] = Append(@, el.id)]
             ELSE st.update_type_ids,
         prev_map |-> (element_ref :> i) @@ st.prev_map,
         assigned_id_map |->
             IF el.id < 0 /\ ~known
             THEN (element_ref :> assigned_id) @@ st.assigned_id_map
             ELSE st.assigned_id_map,
         current_id_map |-> st.current_id_map]

\* _update_elements(), lines 132-151: one iteration of the loop over the elements
ProcessElement(st, i, sequence_id, at) ==
    LET el     == st.elements[i].element
        element_ref == st.elements[i].element_ref
        prev        == IF element_ref \in DOMAIN st.prev_map THEN st.prev_map[element_ref] ELSE 0
        known       == element_ref \in DOMAIN st.assigned_id_map
        assigned_id == IF known THEN st.assigned_id_map[element_ref]
                       ELSE st.current_id_map[el.type] + 1
        stamped     == [st.elements EXCEPT ![i].element.sequence_id = sequence_id,
                                           ![i].element.created_at = at]
        linked      == IF prev # 0
                       THEN [stamped EXCEPT ![prev].element.next_sequence_id = sequence_id]
                       ELSE stamped
    IN  [elements |->
             IF el.id < 0 THEN [linked EXCEPT ![i].element.id = assigned_id] ELSE linked,
         update_type_ids |->
             IF prev = 0 /\ el.version > 1
             THEN [st.update_type_ids EXCEPT ![el.type] = Append(@, el.id)]
             ELSE st.update_type_ids,
         prev_map |-> (element_ref :> i) @@ st.prev_map,
         assigned_id_map |->
             IF el.id < 0 /\ ~known
             THEN (element_ref :> assigned_id) @@ st.assigned_id_map
             ELSE st.assigned_id_map,
         current_id_map |->
             IF el.id < 0 /\ ~known
             THEN [st.current_id_map EXCEPT ![el.type] = assigned_id]
             ELSE st.current_id_map]

\* variant: the numbering starts at the current maximum instead of after it
SequenceIdFromCurrent(current_sequence_id, i) == current_sequence_id + i - 1

\* line 132, enumerate(elements, current_sequence_id + 1): the number of the i-th element
SequenceId(current_sequence_id, i) == current_sequence_id + i

RECURSIVE ProcessElements(_, _, _, _)
ProcessElements(st, i, current_sequence_id, at) ==
    IF i > Len(st.elements) THEN st
    ELSE ProcessElements(ProcessElement(st, i, SequenceId(current_sequence_id, i), at),
                         i + 1, current_sequence_id, at)

\* variant: a member keeps its placeholder id
ProcessMembersKeepId(el, assigned_id_map) ==
    [k \in DOMAIN el.members |->
        [el.members[k] EXCEPT !.sequence_id = el.sequence_id]]

\* _update_elements(), lines 164-171: the members of one element
ProcessMembers(el, assigned_id_map) ==
    [k \in DOMAIN el.members |->
        LET member     == el.members[k]
            member_ref == ElementRef(member.type, member.id)
        IN  [member EXCEPT
                !.sequence_id = el.sequence_id,
                !.id = IF member.id < 0 THEN assigned_id_map[member_ref] ELSE @]]

\* a member names a placeholder that no element of the batch defines (KeyError, line 171)
MissingPlaceholder(elements, assigned_id_map) ==
    \E i \in DOMAIN elements : \E k \in DOMAIN elements[i].element.members :
        LET member == elements[i].element.members[k]
        IN  member.id < 0 /\ ElementRef(member.type, member.id) \notin DOMAIN assigned_id_map

\* _update_elements(), lines 125-171, from the counters read under the lock
UpdateElements(apply_elements, current_sequence_id, current_id_map, at) ==
    LET st == ProcessElements(
                  [elements |-> apply_elements,
                   update_type_ids |-> [t \in Types |-> <<>>],
                   prev_map |-> <<>>,
                   assigned_id_map |-> <<>>,
                   current_id_map |-> current_id_map],
                  1, current_sequence_id, at)
        missing == MissingPlaceholder(st.elements, st.assigned_id_map)
    IN  [elements |->
             IF missing THEN st.elements
             ELSE [i \in DOMAIN st.elements |->
                      [st.elements[i] EXCEPT
                          !.element.members =
                              ProcessMembers(st.elements[i].element, st.assigned_id_map)]],
         missing |-> missing,
         current_sequence_id |-> current_sequence_id,
         update_type_ids |-> st.update_type_ids,
         assigned_id_map |-> st.assigned_id_map]

\* the row of the element table written for an Element object
ElementRow(e) ==
    [type |-> e.type, id |-> e.id, version |-> e.version, visible |-> e.visible,
     changeset_id |-> e.changeset_id, created_at |-> e.created_at,
     sequence_id |-> e.sequence_id, next_sequence_id |-> e.next_sequence_id]

\* the row of the element_member table written for an ElementMember object
MemberRow(m) ==
    [sequence_id |-> m.sequence_id, order |-> m.order, type |-> m.type, id |-> m.id]

InsertElements(apply_elements) ==
    {ElementRow(apply_elements[i].element) : i \in DOMAIN apply_elements}

InsertMembers(apply_elements) ==
    UNION {{MemberRow(apply_elements[i].element.members[k]) :
               k \in DOMAIN apply_elements[i].element.members} :
           i \in DOMAIN apply_elements}

\* _update_elements_db(), lines 191-223: the UPDATE, evaluated on the transaction's view V;
\* the result is the set of <<sequence_id of the updated row, its new next_sequence_id>>
LinkUpdate(V, current_sequence_id, update_type_ids) ==
    LET targets == {r \in V :
                       /\ r.sequence_id <= current_sequence_id
                       /\ r.next_sequence_id = Null
                       /\ r.id \in Range(update_type_ids[r.type])}
        NextOf(r) == LET larger == {x \in V : x.type = r.type /\ x.id = r.id
                                            /\ x.version > r.version}
                   IN  IF larger = {} THEN Null
                       ELSE (CHOOSE x \in larger :
                                \A y \in larger : x.version <= y.version).sequence_id
    IN  {<<r.sequence_id, NextOf(r)>> : r \in targets}

\* variant: a superseded revision is removed instead of being linked to its successor
ApplyLinksDeleting(E, links) ==
    {r \in E : ~\E l \in links : l[1] = r.sequence_id}

\* the element table after the updates of a transaction are applied to it
ApplyLinks(E, links) ==
    {IF \E l \in links : l[1] = r.sequence_id
     THEN [r EXCEPT !.next_sequence_id = (CHOOSE l \in links : l[1] = r.sequence_id)[2]]
     ELSE r : r \in E}

(***************************************************************************)
(* The state machine.                                                      *)
(***************************************************************************)
NoTasks == [latest |-> "none", unreferenced |-> "none", changeset |-> "none", elements |-> "none"]
NoLocal == [current_sequence_id |-> 0, update_type_ids |-> [t \in Types |-> <<>>],
            assigned_id_map |-> <<>>]
NoSession == [elements |-> {}, members |-> {}, links |-> {}, changeset |-> NoPrepare.changeset]
NoOutcome == [kind |-> "none", error |-> "", map |-> <<>>]
NoPre == [element |-> {}, element_member |-> {}, changeset |-> <<>>, prepare |-> NoPrepare]
NoRead == [n |-> 0, point_in_time |-> Null, typed_refs |-> {}, result |-> {}, lock |-> NoProc]
NotDecoded == [done |-> FALSE, raised |-> FALSE, result |-> <<>>]
NoLogical ==
    [kind |-> "none", done |-> FALSE, refs |-> <<>>, limit |-> Null, pending |-> {},
     ref_map |-> <<>>, status |-> "none", element |-> {}, members_element_refs |-> {},
     rows |-> {}, result |-> <<>>, seen |-> <<>>]
\* the instance before any property was read: no _UCP attribute
NoGot == [name |-> "none", value |-> 0, watch |-> 0]
NoInstance == [watch |-> 1, has_UCP |-> FALSE, UCP |-> <<>>, got |-> NoGot]

\* the store holds node 1 and way 1 (whose only member is node 1), written at time 1
InitEngine ==
    /\ element =
          {[type |-> "node", id |-> 1, version |-> 1, visible |-> TRUE, changeset_id |-> 1,
            created_at |-> 1, sequence_id |-> 1, next_sequence_id |-> Null],
           [type |-> "way", id |-> 1, version |-> 1, visible |-> TRUE, changeset_id |-> 1,
            created_at |-> 1, sequence_id |-> 2, next_sequence_id |-> Null]}
    /\ element_member = {[sequence_id |-> 2, order |-> 0, type |-> "node", id |-> 1]}
    /\ changeset = [c \in ChangesetIds |->
                       [id |-> c, updated_at |-> 1, closed_at |-> Null,
                        size |-> IF c = 1 THEN 2 ELSE 0]]
    /\ clock = 2
    /\ lock = NoProc
    /\ applies = 0
    /\ pc = [p \in Procs |-> "idle"]
    /\ prepare = [p \in Procs |-> NoPrepare]
    /\ assigned_ref_map = [p \in Procs |-> <<>>]
    /\ now = [p \in Procs |-> Null]
    /\ task = [p \in Procs |-> NoTasks]
    /\ local = [p \in Procs |-> NoLocal]
    /\ session = [p \in Procs |-> NoSession]
    /\ outcome = [p \in Procs |-> NoOutcome]
    /\ pre = [p \in Procs |-> NoPre]

Init ==
    /\ InitEngine
    /\ reader = NoRead
    /\ changes = <<>>
    /\ decoded = NotDecoded
    /\ logical = NoLogical
    /\ instance = NoInstance

\* OptimisticDiffPrepare on the committed store; a rejected batch ends the request
PrepareBatch(p, drafts, changeset_id) ==
    /\ applies' = applies + 1
    /\ LET r == OptimisticDiffPrepare(element, element_member, changeset, drafts, changeset_id)
       IN  IF r.ok
           THEN /\ pc' = [pc EXCEPT ![p] = "prepared"]
                /\ prepare' = [prepare EXCEPT ![p] =
                       [apply_elements |-> r.apply_elements,
                        element_state |-> r.element_state,
                        reference_check_element_refs |-> r.reference_check_element_refs,
                        at_sequence_id |-> r.at_sequence_id,
                        changeset |-> r.changeset]]
                /\ outcome' = [outcome EXCEPT ![p] = NoOutcome]
           ELSE /\ pc' = [pc EXCEPT ![p] = "done"]
                /\ prepare' = [prepare EXCEPT ![p] = NoPrepare]
                /\ outcome' = [outcome EXCEPT ![p] = [NoOutcome EXCEPT !.kind = "rejected"]]
    /\ assigned_ref_map' = [assigned_ref_map EXCEPT ![p] = <<>>]
    /\ now' = [now EXCEPT ![p] = Null]
    /\ task' = [task EXCEPT ![p] = NoTasks]
    /\ local' = [local EXCEPT ![p] = NoLocal]
    /\ session' = [session EXCEPT ![p] = NoSession]
    /\ pre' = [pre EXCEPT ![p] = NoPre]
    /\ UNCHANGED <<element, element_member, changeset, clock, collaborators, lock>>

\* a request prepares a batch
Prepare(p, drafts, changeset_id) ==
    /\ pc[p] \in {"idle", "done"}
    /\ applies < MaxApplies
    /\ PrepareBatch(p, drafts, changeset_id)

\* the caller of an apply that ended with a conflict error prepares a batch again
Retry(p, drafts, changeset_id) ==
    /\ pc[p] = "done"
    /\ outcome[p].kind = "conflict"
    /\ applies >= MaxApplies
    /\ applies < MaxApplies + MaxRetries
    /\ PrepareBatch(p, drafts, changeset_id)

\* variant: the changeset of an apply with nothing staged is stamped all the same
ApplyEmptyUpdatingChangeset(p) ==
    /\ pc[p] = "prepared"
    /\ prepare[p].apply_elements = <<>>
    /\ pc' = [pc EXCEPT ![p] = "done"]
    /\ outcome' = [outcome EXCEPT ![p] = [NoOutcome EXCEPT !.kind = "returned"]]
    /\ changeset' = IF prepare[p].changeset = NoChangeset THEN changeset
                    ELSE [changeset EXCEPT ![prepare[p].changeset.id].updated_at = clock]
    /\ UNCHANGED <<element, element_member, clock, collaborators, lock, applies, prepare,
                   assigned_ref_map, now, task, local, session, pre>>

\* apply(), lines 36-40: nothing staged
ApplyEmpty(p) ==
    /\ pc[p] = "prepared"
    /\ prepare[p].apply_elements = <<>>
    /\ pc' = [pc EXCEPT ![p] = "done"]
    /\ outcome' = [outcome EXCEPT ![p] = [NoOutcome EXCEPT !.kind = "returned"]]
    /\ UNCHANGED <<element, element_member, changeset, clock, collaborators, lock, applies, prepare,
                   assigned_ref_map, now, task, local, session, pre>>

\* apply(), lines 42-44: elements are staged and no changeset is set
ApplyNoChangeset(p) ==
    /\ pc[p] = "prepared"
    /\ prepare[p].apply_elements # <<>>
    /\ prepare[p].changeset = NoChangeset
    /\ pc' = [pc EXCEPT ![p] = "done"]
    /\ outcome' = [outcome EXCEPT ![p] =
           [NoOutcome EXCEPT !.kind = "error", !.error = "AssertionError"]]
    /\ UNCHANGED <<element, element_member, changeset, clock, collaborators, lock, applies,
                   prepare, assigned_ref_map, now, task, local, session, pre>>

\* variant: a lock mode that does not conflict with itself
LockGrantedShared(p) == TRUE

\* the lock request of line 48 is granted only while no other transaction holds the lock
LockGranted(p) == lock = NoProc

\* variant: an apply that ended with a conflict takes the lock again by itself
LockRetrying(p) ==
    /\ pc[p] = "prepared" \/ (pc[p] = "done" /\ outcome[p].kind = "conflict")
    /\ prepare[p].apply_elements # <<>>
    /\ prepare[p].changeset # NoChangeset
    /\ LockGranted(p)
    /\ lock' = p
    /\ pc' = [pc EXCEPT ![p] = "applying"]
    /\ outcome' = [outcome EXCEPT ![p] = NoOutcome]
    /\ assigned_ref_map' =
           [assigned_ref_map EXCEPT ![p] = BuildAssignedRefMap(prepare[p].apply_elements)]
    /\ \E t \in clock..MaxClock :
           /\ clock' = t
           /\ now' = [now EXCEPT ![p] = t]
    /\ task' = [task EXCEPT ![p] =
           [latest |-> "pending",
            unreferenced |-> IF prepare[p].reference_check_element_refs # {}
                             THEN "pending" ELSE "none",
            changeset |-> "pending",
            elements |-> "read"]]
    /\ pre' = [pre EXCEPT ![p] =
           [element |-> element, element_member |-> element_member, changeset |-> changeset,
            prepare |-> prepare[p]]]
    /\ UNCHANGED <<element, element_member, changeset, collaborators, applies, prepare,
                   local, session>>

\* apply(), lines 36-64: the lock is acquired, the commit time read (utcnow() never
\* runs backwards) and the tasks created
Lock(p) ==
    /\ pc[p] = "prepared"
    /\ prepare[p].apply_elements # <<>>
    /\ prepare[p].changeset # NoChangeset
    /\ LockGranted(p)
    /\ lock' = p
    /\ pc' = [pc EXCEPT ![p] = "applying"]
    /\ assigned_ref_map' =
           [assigned_ref_map EXCEPT ![p] = BuildAssignedRefMap(prepare[p].apply_elements)]
    /\ \E t \in clock..MaxClock :
           /\ clock' = t
           /\ now' = [now EXCEPT ![p] = t]
    /\ task' = [task EXCEPT ![p] =
           [latest |-> "pending",
            unreferenced |-> IF prepare[p].reference_check_element_refs # {}
                             THEN "pending" ELSE "none",
            changeset |-> "pending",
            elements |-> "read"]]
    /\ pre' = [pre EXCEPT ![p] =
           [element |-> element, element_member |-> element_member, changeset |-> changeset,
            prepare |-> prepare[p]]]
    /\ UNCHANGED <<element, element_member, changeset, collaborators, applies, prepare, local,
                   session, outcome>>

\* a task raised: the TaskGroup cancels the others, db_commit rolls the transaction back
Rollback(p, error) ==
    /\ pc' = [pc EXCEPT ![p] = "done"]
    /\ lock' = IF lock = p THEN NoProc ELSE lock
    /\ session' = [session EXCEPT ![p] = NoSession]
    /\ outcome' = [outcome EXCEPT ![p] = [NoOutcome EXCEPT !.kind = "conflict", !.error = error]]
    /\ UNCHANGED <<element, element_member, changeset, clock, collaborators, applies, assigned_ref_map,
                   now, local, pre>>

\* variant: the optimistic check passes whatever the store holds
CheckLatestIgnored(p) ==
    /\ pc[p] = "applying"
    /\ task[p].latest = "pending"
    /\ task' = [task EXCEPT ![p].latest = "done"]
    /\ UNCHANGED <<element, element_member, changeset, clock, collaborators, lock, applies, pc,
                   prepare, assigned_ref_map, now, local, session, outcome, pre>>

\* _check_elements_latest()
CheckLatest(p) ==
    /\ pc[p] = "applying"
    /\ task[p].latest = "pending"
    /\ IF check_is_latest(element, VersionedRefs(prepare[p].element_state))
       THEN /\ task' = [task EXCEPT ![p].latest = "done"]
            /\ UNCHANGED <<element, element_member, changeset, clock, collaborators, lock, applies, pc,
                           prepare, assigned_ref_map, now, local, session, outcome, pre>>
       ELSE /\ task' = [task EXCEPT ![p].latest = "failed"]
            /\ Rollback(p, "Element is outdated")
            /\ UNCHANGED prepare

\* variant: the reference check passes whatever the store holds
CheckUnreferencedIgnored(p) ==
    /\ pc[p] = "applying"
    /\ task[p].unreferenced = "pending"
    /\ task' = [task EXCEPT ![p].unreferenced = "done"]
    /\ UNCHANGED <<element, element_member, changeset, clock, collaborators, lock, applies, pc,
                   prepare, assigned_ref_map, now, local, session, outcome, pre>>

\* _check_elements_unreferenced()
CheckUnreferenced(p) ==
    /\ pc[p] = "applying"
    /\ task[p].unreferenced = "pending"
    /\ IF check_is_unreferenced(element_member, prepare[p].reference_check_element_refs,
                                prepare[p].at_sequence_id)
       THEN /\ task' = [task EXCEPT ![p].unreferenced = "done"]
            /\ UNCHANGED <<element, element_member, changeset, clock, collaborators, lock, applies, pc,
                           prepare, assigned_ref_map, now, local, session, outcome, pre>>
       ELSE /\ task' = [task EXCEPT ![p].unreferenced = "failed"]
            /\ Rollback(p, "Element is referenced")
            /\ UNCHANGED prepare

\* variant: the changeset is written without comparing its updated_at
UpdateChangesetUnchecked(p) ==
    /\ pc[p] = "applying"
    /\ task[p].changeset = "pending"
    /\ LET updated == auto_close_on_size(
                           [prepare[p].changeset EXCEPT !.updated_at = now[p]], now[p])
       IN  /\ task' = [task EXCEPT ![p].changeset = "done"]
           /\ prepare' = [prepare EXCEPT ![p].changeset = updated]
           /\ session' = [session EXCEPT ![p].changeset = updated]
    /\ UNCHANGED <<element, element_member, changeset, clock, collaborators, lock, applies, pc,
                   assigned_ref_map, now, local, outcome, pre>>

\* variant: the closing policy is not evaluated by apply
UpdateChangesetNoAutoClose(p) ==
    /\ pc[p] = "applying"
    /\ task[p].changeset = "pending"
    /\ IF prepare[p].changeset.updated_at
              = get_updated_at_by_ids(changeset, prepare[p].changeset.id)
       THEN LET updated == [prepare[p].changeset EXCEPT !.updated_at = now[p]]
            IN  /\ task' = [task EXCEPT ![p].changeset = "done"]
                /\ prepare' = [prepare EXCEPT ![p].changeset = updated]
                /\ session' = [session EXCEPT ![p].changeset = updated]
                /\ UNCHANGED <<element, element_member, changeset, clock, collaborators, lock, applies, pc,
                               assigned_ref_map, now, local, outcome, pre>>
       ELSE /\ task' = [task EXCEPT ![p].changeset = "failed"]
            /\ Rollback(p, "Changeset is outdated")
            /\ UNCHANGED prepare

\* _update_changeset()
UpdateChangeset(p) ==
    /\ pc[p] = "applying"
    /\ task[p].changeset = "pending"
    /\ IF prepare[p].changeset.updated_at
              = get_updated_at_by_ids(changeset, prepare[p].changeset.id)
       THEN LET updated == auto_close_on_size(
                               [prepare[p].changeset EXCEPT !.updated_at = now[p]], now[p])
            IN  /\ task' = [task EXCEPT ![p].changeset = "done"]
                /\ prepare' = [prepare EXCEPT ![p].changeset = updated]
                /\ session' = [session EXCEPT ![p].changeset = updated]
                /\ UNCHANGED <<element, element_member, changeset, clock, collaborators, lock, applies, pc,
                               assigned_ref_map, now, local, outcome, pre>>
       ELSE /\ task' = [task EXCEPT ![p].changeset = "failed"]
            /\ Rollback(p, "Changeset is outdated")
            /\ UNCHANGED prepare

\* variant: the counters are those of the snapshot the batch was prepared against
ReadCountersOfSnapshot(p) ==
    LET snapshot == {r \in element : r.sequence_id <= prepare[p].at_sequence_id}
    IN  [current_sequence_id |-> get_current_sequence_id(snapshot),
         current_id_map |-> get_current_ids(snapshot)]

\* _update_elements(), lines 119-124: the two counter queries, run on the committed store
ReadCounters(p) ==
    [current_sequence_id |-> get_current_sequence_id(element),
     current_id_map |-> get_current_ids(element)]

\* _update_elements(), lines 119-173: the counters are read and the batch is numbered
UpdateElementsRead(p) ==
    /\ pc[p] = "applying"
    /\ task[p].elements = "read"
    /\ LET u == UpdateElements(prepare[p].apply_elements, ReadCounters(p).current_sequence_id,
                               ReadCounters(p).current_id_map, now[p])
       IN  /\ prepare' = [prepare EXCEPT ![p].apply_elements = u.elements]
           /\ local' = [local EXCEPT ![p] =
                  [current_sequence_id |-> u.current_sequence_id,
                   update_type_ids |-> u.update_type_ids,
                   assigned_id_map |-> u.assigned_id_map]]
           /\ IF u.missing
              THEN /\ task' = [task EXCEPT ![p].elements = "failed"]
                   /\ pc' = [pc EXCEPT ![p] = "done"]
                   /\ lock' = IF lock = p THEN NoProc ELSE lock
                   /\ session' = [session EXCEPT ![p] = NoSession]
                   /\ outcome' = [outcome EXCEPT ![p] =
                          [NoOutcome EXCEPT !.kind = "error", !.error = "KeyError"]]
              ELSE /\ task' = [task EXCEPT ![p].elements = "db"]
                   /\ UNCHANGED <<pc, lock, session, outcome>>
    /\ UNCHANGED <<element, element_member, changeset, clock, collaborators, applies, assigned_ref_map,
                   now, pre>>

\* variant: a lock mode that conflicts with the ACCESS SHARE lock of a SELECT
ReadGrantedAccessExclusive == lock = NoProc

\* line 25, EXCLUSIVE MODE: the lock does not conflict with the lock a SELECT takes
ReadGranted == TRUE

\* a plain reader runs get_many_latest_by_typed_refs in a session of its own: the time
\* point is read from the clock (line 147) and the committed rows are selected
Read(typed_refs) ==
    /\ reader.n < MaxReads
    /\ ReadGranted
    /\ \E t \in clock..MaxClock :
           /\ clock' = t
           /\ reader' = [n |-> reader.n + 1,
                         point_in_time |-> t,
                         typed_refs |-> typed_refs,
                         result |-> get_many_latest_by_typed_refs(element, typed_refs, t),
                         lock |-> lock]
    /\ UNCHANGED <<element, element_member, changeset, lock, applies, pc, prepare,
                   assigned_ref_map, now, task, local, session, outcome, pre,
                   changes, decoded, logical, instance>>

\* variant: the rows are written through a session that commits on its own
UpdateElementsDbAutocommit(p) ==
    /\ pc[p] = "applying"
    /\ task[p].elements = "db"
    /\ LET inserted == InsertElements(prepare[p].apply_elements)
           links    == IF \E t \in Types : local[p].update_type_ids[t] # <<>>
                       THEN LinkUpdate(element \cup inserted, local[p].current_sequence_id,
                                       local[p].update_type_ids)
                       ELSE {}
       IN  /\ element' = ApplyLinks(element, links) \cup inserted
           /\ element_member' = element_member \cup InsertMembers(prepare[p].apply_elements)
    /\ task' = [task EXCEPT ![p].elements = "done"]
    /\ UNCHANGED <<changeset, clock, collaborators, lock, applies, pc, prepare, assigned_ref_map, now,
                   local, session, outcome, pre>>

\* _update_elements_db(): the new rows are written in the transaction (lines 187-189)
\* and the previous revisions are linked to them (lines 191-223)
UpdateElementsDb(p) ==
    /\ pc[p] = "applying"
    /\ task[p].elements = "db"
    /\ LET inserted == InsertElements(prepare[p].apply_elements)
       IN  session' = [session EXCEPT
               ![p].elements = inserted,
               ![p].members = InsertMembers(prepare[p].apply_elements),
               ![p].links =
                   IF \E t \in Types : local[p].update_type_ids[t] # <<>>
                   THEN LinkUpdate(element \cup inserted, local[p].current_sequence_id,
                                   local[p].update_type_ids)
                   ELSE {}]
    /\ task' = [task EXCEPT ![p].elements = "done"]
    /\ UNCHANGED <<element, element_member, changeset, clock, collaborators, lock, applies, pc, prepare,
                   assigned_ref_map, now, local, outcome, pre>>

\* variant: the map holds copies of the elements taken when it was built
ReturnedMapOfCopies(p) ==
    [ref \in DOMAIN assigned_ref_map[p] |->
        [k \in DOMAIN assigned_ref_map[p][ref] |->
            pre[p].prepare.apply_elements[assigned_ref_map[p][ref][k]].element]]

\* apply(), line 66: the value returned, the elements being the objects of the batch
ReturnedMap(p) ==
    [ref \in DOMAIN assigned_ref_map[p] |->
        [k \in DOMAIN assigned_ref_map[p][ref] |->
            prepare[p].apply_elements[assigned_ref_map[p][ref][k]].element]]

\* apply(), lines 46-66: every task is done, db_commit commits and the map is returned
Commit(p) ==
    /\ pc[p] = "applying"
    /\ task[p].latest = "done"
    /\ task[p].unreferenced \in {"done", "none"}
    /\ task[p].changeset = "done"
    /\ task[p].elements = "done"
    /\ element' = ApplyLinks(element, session[p].links) \cup session[p].elements
    /\ element_member' = element_member \cup session[p].members
    /\ changeset' = [changeset EXCEPT ![session[p].changeset.id] = session[p].changeset]
    /\ lock' = IF lock = p THEN NoProc ELSE lock
    /\ pc' = [pc EXCEPT ![p] = "done"]
    /\ session' = [session EXCEPT ![p] = NoSession]
    /\ outcome' = [outcome EXCEPT ![p] =
           [NoOutcome EXCEPT !.kind = "returned", !.map = ReturnedMap(p)]]
    /\ UNCHANGED <<clock, collaborators, applies, prepare, assigned_ref_map, now, task, local, pre>>

Next ==
    \/ \E p \in Procs, drafts \in Batches : \E c \in Changesets(p) : Prepare(p, drafts, c)
    \/ \E p \in Procs : ApplyEmpty(p)
    \/ \E p \in Procs : Lock(p)
    \/ \E p \in Procs : CheckLatest(p)
    \/ \E p \in Procs : CheckUnreferenced(p)
    \/ \E p \in Procs : UpdateChangeset(p)
    \/ \E p \in Procs : UpdateElementsRead(p)
    \/ \E p \in Procs : UpdateElementsDb(p)
    \/ \E p \in Procs : Commit(p)

Spec == Init /\ [][Next]_vars

\* the engine with callers that retry after a conflict and a plain reader
NextCallers ==
    \/ \E p \in Procs, drafts \in SmallBatches : \E c \in Changesets(p) : Prepare(p, drafts, c)
    \/ \E p \in Procs, drafts \in SmallBatches : \E c \in Changesets(p) : Retry(p, drafts, c)
    \/ \E p \in Procs : ApplyEmpty(p)
    \/ \E p \in Procs : Lock(p)
    \/ \E p \in Procs : CheckLatest(p)
    \/ \E p \in Procs : CheckUnreferenced(p)
    \/ \E p \in Procs : UpdateChangeset(p)
    \/ \E p \in Procs : UpdateElementsRead(p)
    \/ \E p \in Procs : UpdateElementsDb(p)
    \/ \E p \in Procs : Commit(p)
    \/ \E typed_refs \in ReadRefs : Read(typed_refs)

SpecCallers == Init /\ [][NextCallers]_vars

\* a caller prepares a batch in changeset 1 or without a changeset
PrepareAny(p, drafts, changeset_id) ==
    /\ pc[p] \in {"idle", "done"}
    /\ applies < MaxPrepares
    /\ PrepareBatch(p, drafts, changeset_id)

\* the engine with callers that edit in one changeset, or in none
NextChangeset ==
    \/ \E p \in Procs, drafts \in TinyBatches : \E c \in {Null, 1} : PrepareAny(p, drafts, c)
    \/ \E p \in Procs : ApplyEmpty(p)
    \/ \E p \in Procs : ApplyNoChangeset(p)
    \/ \E p \in Procs : Lock(p)
    \/ \E p \in Procs : CheckLatest(p)
    \/ \E p \in Procs : CheckUnreferenced(p)
    \/ \E p \in Procs : UpdateChangeset(p)
    \/ \E p \in Procs : UpdateElementsRead(p)
    \/ \E p \in Procs : UpdateElementsDb(p)
    \/ \E p \in Procs : Commit(p)

SpecChangeset == Init /\ [][NextChangeset]_vars

\* a document is handed to the decoder
InitDecode ==
    /\ InitEngine
    /\ reader = NoRead
    /\ changes \in OsmChanges
    /\ decoded = NotDecoded
    /\ logical = NoLogical
    /\ instance = NoInstance

Decode ==
    /\ ~decoded.done
    /\ decoded' = decode_osmchange(changes)
    /\ UNCHANGED <<element, element_member, changeset, clock, lock, applies, pc, prepare,
                   assigned_ref_map, now, task, local, session, outcome, pre, reader,
                   changes, logical, instance>>

NextDecode == Decode

SpecDecode == InitDecode /\ [][NextDecode]_vars

(***************************************************************************)
(* Logical reads made of several queries (element_repository.py and the    *)
(* element controller), each query in a session of its own.                *)
(***************************************************************************)
\* what a query saw: the committed store and the time point it was evaluated at
Seen(t) == [element |-> element, element_member |-> element_member, point_in_time |-> t]

ReadUnchanged ==
    UNCHANGED <<element, element_member, changeset, lock, applies, pc, prepare,
                assigned_ref_map, now, task, local, session, outcome, pre, reader,
                changes, decoded, instance>>

\* get_many_latest_by_typed_refs(typed_refs, recurse_ways=True): one statement
LatestRecurseWays(typed_refs) ==
    /\ logical.kind = "none"
    /\ \E t \in clock..MaxClock :
           /\ clock' = t
           /\ logical' = [NoLogical EXCEPT
                  !.kind = "latest", !.done = TRUE, !.status = "ok",
                  !.members_element_refs = typed_refs,
                  !.rows = get_many_latest_recurse_ways(element, element_member,
                                                        typed_refs, t),
                  !.seen = <<Seen(t)>>]
    /\ ReadUnchanged

\* element_full, lines 251-260: the element is read; 404 when there is none, 410 when
\* it is not visible
FullElement(element_ref) ==
    /\ logical.kind = "none"
    /\ \E t \in clock..MaxClock :
           /\ clock' = t
           /\ \E elements \in Limited(get_many_latest_by_typed_refs(element, {element_ref}, t), 1) :
                  logical' =
                      IF elements = {}
                      THEN [NoLogical EXCEPT !.kind = "full", !.done = TRUE,
                                             !.refs = <<element_ref>>,
                                             !.status = "not_found", !.seen = <<Seen(t)>>]
                      ELSE IF \E el \in elements : ~el.visible
                      THEN [NoLogical EXCEPT !.kind = "full", !.done = TRUE,
                                             !.refs = <<element_ref>>,
                                             !.status = "gone", !.seen = <<Seen(t)>>]
                      ELSE [NoLogical EXCEPT
                               !.kind = "full", !.refs = <<element_ref>>,
                               !.pending = {"members"}, !.element = elements,
                               !.members_element_refs =
                                   UNION {MemberRefs(element_member, el.sequence_id) :
                                             el \in elements},
                               !.seen = <<Seen(t)>>]
    /\ ReadUnchanged

\* element_full, lines 262-269: the members of the element are read, ways recursed
FullMembers ==
    /\ logical.kind = "full"
    /\ logical.pending = {"members"}
    /\ IF logical.members_element_refs = {}
       THEN /\ logical' = [logical EXCEPT !.done = TRUE, !.pending = {}, !.status = "ok"]
            /\ UNCHANGED clock
       ELSE \E t \in clock..MaxClock :
                /\ clock' = t
                /\ logical' = [logical EXCEPT
                       !.done = TRUE, !.pending = {}, !.status = "ok",
                       !.rows = get_many_latest_recurse_ways(
                                    element, element_member, logical.members_element_refs, t),
                       !.seen = Append(@, Seen(t))]
    /\ ReadUnchanged

\* find_many_by_refs, lines 208-235: the refs are split and the two tasks started
FindManyByRefs(refs, limit) ==
    /\ logical.kind = "none"
    /\ LET pending == {k \in {"versioned", "typed"} :
                          \E i \in DOMAIN refs : IsVersioned(refs[i]) <=> k = "versioned"}
       IN  logical' = [NoLogical EXCEPT
               !.kind = "find", !.refs = refs, !.limit = limit, !.pending = pending,
               !.done = (pending = {}), !.status = "ok"]
    /\ UNCHANGED clock
    /\ ReadUnchanged

\* the task that ends last is followed by lines 237-256
FindTaskEnds(k, ref_map, t) ==
    logical' = [logical EXCEPT
        !.pending = @ \ {k},
        !.ref_map = ref_map,
        !.seen = Append(@, Seen(t)),
        !.done = (logical.pending = {k}),
        !.result = IF logical.pending = {k}
                   THEN CollectByRefs(logical.refs, ref_map, logical.limit) ELSE @]

\* find_many_by_refs, versioned_task, lines 223-225
FindVersioned ==
    /\ logical.kind = "find"
    /\ "versioned" \in logical.pending
    /\ LET versioned_refs == {ref \in Range(logical.refs) : IsVersioned(ref)}
       IN  \E elements \in Limited(get_many_by_versioned_refs(element, versioned_refs),
                                   logical.limit) :
               FindTaskEnds("versioned",
                   [ref \in {VersionedElementRef(el.type, el.id, el.version) : el \in elements}
                       |-> CHOOSE el \in elements :
                               VersionedElementRef(el.type, el.id, el.version) = ref]
                       @@ logical.ref_map,
                   clock)
    /\ UNCHANGED clock
    /\ ReadUnchanged

\* find_many_by_refs, typed_task, lines 227-229
FindTyped ==
    /\ logical.kind = "find"
    /\ "typed" \in logical.pending
    /\ LET typed_refs == {ref \in Range(logical.refs) : ~IsVersioned(ref)}
       IN  \E t \in clock..MaxClock :
               /\ clock' = t
               /\ \E elements \in Limited(get_many_latest_by_typed_refs(element, typed_refs, t),
                                          logical.limit) :
                      FindTaskEnds("typed",
                          [ref \in {ElementRef(el.type, el.id) : el \in elements}
                              |-> CHOOSE el \in elements : ElementRef(el.type, el.id) = ref]
                              @@ logical.ref_map,
                          t)
    /\ ReadUnchanged

\* one request at a time edits the store while a reader runs one logical read
NextReads ==
    \/ \E drafts \in SmallBatches : \E c \in Changesets("p1") : Prepare("p1", drafts, c)
    \/ \E p \in Procs : ApplyEmpty(p)
    \/ \E p \in Procs : Lock(p)
    \/ \E p \in Procs : CheckLatest(p)
    \/ \E p \in Procs : CheckUnreferenced(p)
    \/ \E p \in Procs : UpdateChangeset(p)
    \/ \E p \in Procs : UpdateElementsRead(p)
    \/ \E p \in Procs : UpdateElementsDb(p)
    \/ \E p \in Procs : Commit(p)
    \/ \E typed_refs \in ReadRefs : LatestRecurseWays(typed_refs)
    \/ \E element_ref \in {ElementRef("way", 1)} : FullElement(element_ref)
    \/ FullMembers
    \/ \E refs \in FindRefs, limit \in FindLimits : FindManyByRefs(refs, limit)
    \/ FindVersioned
    \/ FindTyped

SpecReads == Init /\ [][NextReads]_vars

(***************************************************************************)
(* updating_cached_property (app/lib/updating_cached_property.py): a class *)
(* with two decorated properties that watch the same attribute.            *)
(***************************************************************************)
\* the name of the watched attribute and the names the two descriptors were set to
watch_attr_name == "watch"
SetAttrNames == {"first", "second"}

\* self._func(instance): the value of a property, a function of the watched attribute
Func(set_attr_name, watch_val) ==
    IF set_attr_name = "first" THEN 2 * watch_val ELSE 2 * watch_val + 1

InstanceUnchanged ==
    UNCHANGED <<element, element_member, changeset, clock, lock, applies, pc, prepare,
                assigned_ref_map, now, task, local, session, outcome, pre, reader,
                changes, decoded, logical>>

\* the watched attribute of the instance is assigned another value
SetWatch(v) ==
    /\ v # instance.watch
    /\ instance' = [instance EXCEPT !.watch = v]
    /\ InstanceUnchanged

\* updating_cached_property.__get__, lines 45-73
Get(set_attr_name) ==
    LET cache_data == IF instance.has_UCP THEN instance.UCP ELSE <<>>
        prev_found == watch_attr_name \in DOMAIN cache_data
        cached_found == set_attr_name \in DOMAIN cache_data
        watch_val  == instance.watch
        evaluate   == \/ ~prev_found
                      \/ ~cached_found
                      \/ cache_data[watch_attr_name] # watch_val
        cached_val == IF evaluate THEN Func(set_attr_name, watch_val)
                      ELSE cache_data[set_attr_name]
    IN  /\ instance' = [instance EXCEPT
               !.has_UCP = TRUE,
               !.UCP = IF evaluate
                       THEN (set_attr_name :> cached_val)
                                @@ (watch_attr_name :> watch_val) @@ cache_data
                       ELSE cache_data,
               !.got = [name |-> set_attr_name, value |-> cached_val, watch |-> watch_val]]
        /\ InstanceUnchanged

NextProperty ==
    \/ \E v \in 1..MaxWatch : SetWatch(v)
    \/ \E set_attr_name \in SetAttrNames : Get(set_attr_name)

SpecProperty == Init /\ [][NextProperty]_vars

(***************************************************************************)
(* Properties of the engine.                                               *)
(***************************************************************************)
\* the request acquired the lock and its apply() has ended
Applied(p) == pc[p] = "done" /\ pre[p].prepare.apply_elements # <<>>
Committed(p) == Applied(p) /\ outcome[p].kind = "returned"
Conflicted(p) == Applied(p) /\ outcome[p].kind = "conflict"

\* the batch as prepared, and as apply() left it
Orig(p) == pre[p].prepare.apply_elements
New(p) == prepare[p].apply_elements

\* the step ends the apply() of p
Ends(p) == pc[p] = "applying" /\ pc'[p] = "done"

CurrentVersion(E, ref) ==
    IF CurrentOf(E, ref) = {} THEN 0 ELSE Max({r.version : r \in CurrentOf(E, ref)})

FirstPos(p, ref) == Min({i \in DOMAIN Orig(p) : Orig(p)[i].element_ref = ref})

PlaceholderRefs(p) ==
    {ref \in {Orig(p)[i].element_ref : i \in DOMAIN Orig(p)} : ref[2] < 0}

\* the ref of the i-th element of the batch after apply()
FinalRef(p, i) == ElementRef(New(p)[i].element.type, New(p)[i].element.id)

\* two requests prepared against the same snapshot with the same base version of one
\* stored ref, no other request having committed between the snapshot and their applies
SameBase(p, q) ==
    /\ p # q
    /\ Applied(p)
    /\ Applied(q)
    /\ pre[p].prepare.at_sequence_id = pre[q].prepare.at_sequence_id
    /\ \E ref \in DOMAIN pre[p].prepare.element_state
                    \cap DOMAIN pre[q].prepare.element_state :
           /\ pre[p].prepare.element_state[ref].remote # Null
           /\ pre[p].prepare.element_state[ref].remote
                  = pre[q].prepare.element_state[ref].remote
    /\ \E r \in {p, q} :
           get_current_sequence_id(pre[r].element) = pre[r].prepare.at_sequence_id

\* C1: of two batches prepared against the same snapshot that declare the same base
\* version of the same stored ref, exactly one commits and the other ends with a
\* conflict error, whatever the order of their applies.
C1_ExactlyOneCommits ==
    \A p, q \in Procs :
        SameBase(p, q) =>
            \/ Committed(p) /\ Conflicted(q)
            \/ Conflicted(p) /\ Committed(q)

C1_Witness ==
    \E p, q \in Procs :
        /\ SameBase(p, q)
        /\ Committed(p)
        /\ Conflicted(q)
        /\ outcome[q].error = "Element is outdated"

\* one of the three checks fails on the store the apply of p locked
AnyCheckFails(p) ==
    \/ ~check_is_latest(pre[p].element, VersionedRefs(pre[p].prepare.element_state))
    \/ /\ pre[p].prepare.reference_check_element_refs # {}
       /\ ~check_is_unreferenced(pre[p].element_member,
                                 pre[p].prepare.reference_check_element_refs,
                                 pre[p].prepare.at_sequence_id)
    \/ pre[p].prepare.changeset.updated_at
           # get_updated_at_by_ids(pre[p].changeset, pre[p].prepare.changeset.id)

StoreIsPre(p) ==
    /\ element' = pre[p].element
    /\ element_member' = pre[p].element_member
    /\ changeset' = pre[p].changeset

\* C2: an apply one of whose checks fails ends with a conflict error, and an apply that
\* ends with a conflict error leaves the element, member and changeset tables exactly
\* as they were when it acquired the lock.
C2_FailureRollsBack ==
    [][\A p \in Procs :
          Ends(p) =>
              /\ AnyCheckFails(p) => outcome'[p].kind = "conflict"
              /\ outcome'[p].kind = "conflict" => StoreIsPre(p)]_vars

\* an apply ended with a conflict after its element-writing task had written its rows
C2_Witness ==
    \E p \in Procs : Conflicted(p) /\ task[p].elements = "done"

\* the apply of a Prepare Result executed alone, in one step, on the store (E, M, C)
SerialApply(E, M, C, prep, at) ==
    IF \/ ~check_is_latest(E, VersionedRefs(prep.element_state))
       \/ /\ prep.reference_check_element_refs # {}
          /\ ~check_is_unreferenced(M, prep.reference_check_element_refs, prep.at_sequence_id)
       \/ prep.changeset.updated_at # get_updated_at_by_ids(C, prep.changeset.id)
    THEN [kind |-> "conflict", element |-> E, element_member |-> M, changeset |-> C]
    ELSE LET u == UpdateElements(prep.apply_elements, get_current_sequence_id(E),
                                 get_current_ids(E), at)
             inserted == InsertElements(u.elements)
         IN  [kind |-> "returned",
              element |-> ApplyLinks(E, LinkUpdate(E \cup inserted, u.current_sequence_id,
                                                   u.update_type_ids)) \cup inserted,
              element_member |-> M \cup InsertMembers(u.elements),
              changeset |-> [C EXCEPT ![prep.changeset.id] =
                                auto_close_on_size([prep.changeset EXCEPT !.updated_at = at],
                                                   at)]]

\* C3: while an apply holds the lock the committed store is the one it locked, and the
\* apply ends with the outcome and the store that executing it alone on that store
\* gives: the applies take effect one at a time in the order of their lock acquisitions.
C3_SerialInLockOrder ==
    [][\A p \in Procs :
          pc[p] = "applying" =>
              /\ element = pre[p].element
              /\ element_member = pre[p].element_member
              /\ changeset = pre[p].changeset
              /\ Ends(p) =>
                     [kind |-> outcome'[p].kind, element |-> element',
                      element_member |-> element_member', changeset |-> changeset']
                         = SerialApply(pre[p].element, pre[p].element_member,
                                       pre[p].changeset, pre[p].prepare, now[p])]_vars

\* two requests committed, the later one having prepared before the earlier one committed
C3_Witness ==
    \E p, q \in Procs :
        /\ p # q
        /\ Committed(p)
        /\ Committed(q)
        /\ pre[q].prepare.at_sequence_id < get_current_sequence_id(pre[q].element)

\* C4: the versions of the committed revisions of a ref are exactly 1..N, N being the
\* number of its revisions: no gap, no version twice.
C4_VersionsContiguous ==
    \A r \in element :
        LET rows == RowsOf(element, ElementRef(r.type, r.id))
        IN  {x.version : x \in rows} = 1..Cardinality(rows)

\* a ref has three revisions while a concurrent apply ended with a conflict
C4_Witness ==
    /\ \E r \in element : r.version = 3
    /\ \E p \in Procs : Conflicted(p)

\* C5: of the committed revisions of a ref exactly one has next_sequence_id = null, and
\* no revision of the ref has a higher version.
C5_OneCurrentRevision ==
    \A r \in element :
        LET ref == ElementRef(r.type, r.id)
        IN  /\ Cardinality(CurrentOf(element, ref)) = 1
            /\ \A c \in CurrentOf(element, ref) : r.version <= c.version

\* a committed batch touched twice a ref whose previous revision was already stored
C5_Witness ==
    \E p \in Procs :
        /\ Committed(p)
        /\ \E i, j \in DOMAIN Orig(p) :
               /\ i < j
               /\ Orig(p)[i].element_ref = Orig(p)[j].element_ref
               /\ Orig(p)[i].element.version > 1

\* C6: no two committed revisions share a sequence_id, and the revisions a commit adds
\* have sequence_ids greater than that of every revision committed before.
C6_SequenceIdsIncrease ==
    [][/\ \A r, s \in element' : r.sequence_id = s.sequence_id => r = s
       /\ \A r \in element' :
              r.sequence_id \notin {s.sequence_id : s \in element} =>
                  r.sequence_id > get_current_sequence_id(element)]_vars

\* two applies committed one after the other
C6_Witness ==
    /\ \A p \in Procs : Committed(p)
    /\ Cardinality({r.created_at : r \in element}) = 3

\* C7: in a committed batch all occurrences of a placeholder ref carry one positive id,
\* placeholders get their ids in the order of their first occurrences, a member naming
\* a placeholder carries the id given to that placeholder's element, these are the rows
\* written, and no stored element or member row has a negative id.
C7_PlaceholdersResolved ==
    /\ \A r \in element : r.id > 0
    /\ \A m \in element_member : m.id > 0
    /\ \A p \in Procs :
           Committed(p) =>
               /\ \A i \in DOMAIN Orig(p) :
                      LET ref == Orig(p)[i].element_ref
                      IN  /\ ref[2] < 0 =>
                                 /\ New(p)[i].element.id > 0
                                 /\ New(p)[i].element.id = New(p)[FirstPos(p, ref)].element.id
                          /\ \E r \in element :
                                 /\ r.sequence_id = New(p)[i].element.sequence_id
                                 /\ ElementRef(r.type, r.id) = FinalRef(p, i)
                          /\ \A k \in DOMAIN Orig(p)[i].element.members :
                                 LET m == Orig(p)[i].element.members[k]
                                     n == New(p)[i].element.members[k]
                                 IN  /\ MemberRow(n) \in element_member
                                     /\ m.id < 0 =>
                                            \E j \in DOMAIN Orig(p) :
                                                /\ Orig(p)[j].element_ref
                                                       = ElementRef(m.type, m.id)
                                                /\ n.id = New(p)[j].element.id
               /\ \A a, b \in PlaceholderRefs(p) :
                      a[1] = b[1] /\ FirstPos(p, a) < FirstPos(p, b) =>
                          New(p)[FirstPos(p, a)].element.id < New(p)[FirstPos(p, b)].element.id

\* a committed batch held a member that named a placeholder of the batch
C7_Witness ==
    \E p \in Procs :
        /\ Committed(p)
        /\ \E i \in DOMAIN Orig(p) : \E k \in DOMAIN Orig(p)[i].element.members :
               Orig(p)[i].element.members[k].id < 0

\* C8: the id given to a placeholder is the largest id of its type in the store at lock
\* time plus the number of placeholders of that type that first occur no later in the
\* batch (per-type counters), and no two stored creations carry the same type and id.
C8_AssignedIdsFresh ==
    /\ \A r, s \in element :
           r.version = 1 /\ s.version = 1 /\ r.type = s.type /\ r.id = s.id => r = s
    /\ \A p \in Procs :
           Committed(p) =>
               \A a \in PlaceholderRefs(p) :
                   New(p)[FirstPos(p, a)].element.id
                       = get_current_ids(pre[p].element)[a[1]]
                         + Cardinality({b \in PlaceholderRefs(p) :
                                           b[1] = a[1] /\ FirstPos(p, b) <= FirstPos(p, a)})

\* a committed batch created two elements of one type, another request created one too
C8_Witness ==
    \E p, q \in Procs :
        /\ p # q
        /\ Committed(p)
        /\ Committed(q)
        /\ \E a, b \in PlaceholderRefs(p) : a # b /\ a[1] = b[1]
        /\ \E c \in PlaceholderRefs(q) : c[1] = "node"

\* the number of elements of the batch of p that touch the ref of its i-th element
Touches(p, i) ==
    Cardinality({j \in DOMAIN Orig(p) : Orig(p)[j].element_ref = Orig(p)[i].element_ref})

\* C9 as stated: after a commit the current version of every ref the batch touched is
\* the version that was current before the apply plus 1, or 1 for a ref it created.
C9_VersionPlusOne ==
    [][\A p \in Procs :
          Ends(p) /\ outcome'[p].kind = "returned" =>
              \A i \in DOMAIN Orig(p) :
                  CurrentVersion(element', ElementRef(prepare'[p].apply_elements[i].element.type,
                                                      prepare'[p].apply_elements[i].element.id))
                      = IF Orig(p)[i].element_ref[2] < 0 THEN 1
                        ELSE CurrentVersion(element, Orig(p)[i].element_ref) + 1]_vars

\* C9 amended: after a commit the current version of every ref the batch touched is the
\* version that was current before the apply (0 for a ref the batch created) plus the
\* number of elements of the batch that touch the ref.
C9_VersionPlusTouches ==
    [][\A p \in Procs :
          Ends(p) /\ outcome'[p].kind = "returned" =>
              \A i \in DOMAIN Orig(p) :
                  CurrentVersion(element', ElementRef(prepare'[p].apply_elements[i].element.type,
                                                      prepare'[p].apply_elements[i].element.id))
                      = CurrentVersion(element, Orig(p)[i].element_ref) + Touches(p, i)]_vars

\* a committed batch touched one ref twice
C9_Witness ==
    \E p \in Procs :
        /\ Committed(p)
        /\ \E i \in DOMAIN Orig(p) : Touches(p, i) = 2

\* the entries of a returned map, as <<ref, position in the list of ref>>
Entries(m) == UNION {{<<ref, k>> : k \in DOMAIN m[ref]} : ref \in DOMAIN m}

\* C10: the map a committed apply returns has the requested refs of the batch as its
\* keys (placeholders as requested), every element of the batch is in the list of its
\* requested ref and in no other place of the map, the lists are in batch order, and
\* the elements of the map carry the ids and sequence_ids of the rows written.
C10_ReturnedMap ==
    \A p \in Procs :
        Committed(p) =>
            LET m == outcome[p].map
            IN  /\ DOMAIN m = {Orig(p)[i].element_ref : i \in DOMAIN Orig(p)}
                /\ \A i \in DOMAIN Orig(p) :
                       /\ \E k \in DOMAIN m[Orig(p)[i].element_ref] :
                              m[Orig(p)[i].element_ref][k] = New(p)[i].element
                       /\ Cardinality({e \in Entries(m) :
                              m[e[1]][e[2]].sequence_id = New(p)[i].element.sequence_id}) = 1
                /\ Cardinality(Entries(m)) = Len(Orig(p))
                /\ \A ref \in DOMAIN m : \A k, l \in DOMAIN m[ref] :
                       k < l => m[ref][k].sequence_id < m[ref][l].sequence_id
                /\ \A e \in Entries(m) :
                       LET x == m[e[1]][e[2]]
                       IN  /\ x.id > 0
                           /\ x.sequence_id > get_current_sequence_id(pre[p].element)
                           /\ \E r \in element :
                                  /\ r.sequence_id = x.sequence_id
                                  /\ r.type = x.type
                                  /\ r.id = x.id
                                  /\ r.version = x.version

\* a committed apply returned two revisions under a placeholder key
C10_Witness ==
    \E p \in Procs :
        /\ Committed(p)
        /\ \E ref \in DOMAIN outcome[p].map : ref[2] < 0 /\ Len(outcome[p].map[ref]) = 2

\* a ref the batch of p observed in the store (non-null remote) had another current
\* version than the observed one when the apply of p acquired the lock
Stale(p) ==
    \E ref \in DOMAIN pre[p].prepare.element_state :
        /\ pre[p].prepare.element_state[ref].remote # Null
        /\ CurrentVersion(pre[p].element, ref) # pre[p].prepare.element_state[ref].remote

\* the reference check fails on the store the apply of p locked
ReferencedAfter(p) ==
    /\ pre[p].prepare.reference_check_element_refs # {}
    /\ \E m \in pre[p].element_member :
           /\ m.sequence_id > pre[p].prepare.at_sequence_id
           /\ ElementRef(m.type, m.id) \in pre[p].prepare.reference_check_element_refs

\* the changeset row was written after the prepare of p read it
ChangesetOutdated(p) ==
    pre[p].changeset[pre[p].prepare.changeset.id].updated_at
        # pre[p].prepare.changeset.updated_at

\* the error names a check that fails on the store the apply of p locked
FailedCheckOf(p, error) ==
    \/ error = "Element is outdated" /\ Stale(p)
    \/ error = "Element is referenced" /\ ReferencedAfter(p)
    \/ error = "Changeset is outdated" /\ ChangesetOutdated(p)

ErrorIsOfFailedCheck(p) == FailedCheckOf(p, outcome[p].error)

\* the refs of the element_state of p whose remote is non-null
RemoteRefs(p) ==
    {ref \in DOMAIN pre[p].prepare.element_state :
        pre[p].prepare.element_state[ref].remote # Null}

\* C11 as stated: an apply commits only if every ref with a non-null remote still has
\* remote.version as its current stored version at lock time, and an apply for which
\* some such ref has a newer current revision ends with the 'Element is outdated'
\* conflict error.
C11_OutdatedError ==
    \A p \in Procs :
        Applied(p) =>
            /\ Committed(p) => ~Stale(p)
            /\ Stale(p) => Conflicted(p) /\ outcome[p].error = "Element is outdated"

\* C11 amended: an apply commits only if every ref with a non-null remote still has
\* remote.version as its current stored version at lock time; an apply for which some
\* such ref has a newer current revision ends with a conflict error, which is 'Element
\* is outdated' unless another check that also fails raised first; exactly the refs
\* with a non-null remote are checked.
C11_OutdatedConflict ==
    \A p \in Procs :
        Applied(p) =>
            /\ Committed(p) => ~Stale(p)
            /\ Stale(p) => Conflicted(p) /\ ErrorIsOfFailedCheck(p)
            /\ Stale(p) /\ ~ReferencedAfter(p) /\ ~ChangesetOutdated(p) =>
                   outcome[p].error = "Element is outdated"
            /\ {ElementRef(v[1], v[2]) : v \in VersionedRefs(pre[p].prepare.element_state)}
                   = RemoteRefs(p)

\* an apply ended with 'Element is outdated', its other checks passing, and another
\* apply committed a batch with a ref whose remote is null
C11_Witness ==
    \E p, q \in Procs :
        /\ Conflicted(p)
        /\ Stale(p)
        /\ ~ReferencedAfter(p)
        /\ ~ChangesetOutdated(p)
        /\ outcome[p].error = "Element is outdated"
        /\ Committed(q)
        /\ DOMAIN pre[q].prepare.element_state # RemoteRefs(q)

\* the current revision of ref in the store (E, M) is a deletion while the member list
\* of the current revision of some element names ref
DeletedWhileReferenced(E, M, ref) ==
    /\ \E r \in CurrentOf(E, ref) : ~r.visible
    /\ \E w \in E : w.next_sequence_id = Null /\ ref \in MemberRefs(M, w.sequence_id)

\* the refs the batch of p deletes
DeletedRefs(p) ==
    {Orig(p)[i].element_ref : i \in {j \in DOMAIN Orig(p) : ~Orig(p)[j].element.visible}}

\* C12 as stated: an apply for whose reference_check_element_refs a revision committed
\* after at_sequence_id names one of them as a member ends with the still-referenced
\* conflict error and leaves the store as it was.
C12_StillReferencedError ==
    [][\A p \in Procs :
          Ends(p) /\ ReferencedAfter(p) =>
              /\ outcome'[p].kind = "conflict"
              /\ outcome'[p].error = "Element is referenced"
              /\ StoreIsPre(p)]_vars

\* C12 amended: such an apply ends with a conflict error, which is the still-referenced
\* one unless another check that also fails raised first, and leaves the store as it
\* was; and no commit deletes an element that the current revision of some element
\* names as a member.
C12_StillReferencedConflict ==
    [][\A p \in Procs :
          Ends(p) =>
              /\ ReferencedAfter(p) =>
                     /\ outcome'[p].kind = "conflict"
                     /\ FailedCheckOf(p, outcome'[p].error)
                     /\ StoreIsPre(p)
              /\ ReferencedAfter(p) /\ ~Stale(p) /\ ~ChangesetOutdated(p) =>
                     outcome'[p].error = "Element is referenced"
              /\ outcome'[p].kind = "returned" =>
                     \A ref \in DeletedRefs(p) :
                         ~DeletedWhileReferenced(element', element_member', ref)]_vars

\* an apply that deletes an element ended with the still-referenced error, its other
\* checks passing, after another batch committed a revision that names the element
C12_Witness ==
    \E p \in Procs :
        /\ Conflicted(p)
        /\ ReferencedAfter(p)
        /\ ~Stale(p)
        /\ ~ChangesetOutdated(p)
        /\ outcome[p].error = "Element is referenced"
        /\ \E ref \in DeletedRefs(p) :
               \E w \in element :
                   w.next_sequence_id = Null /\ ref \in MemberRefs(element_member, w.sequence_id)

\* the id of the changeset the batch of p edits in
ChangesetOf(p) == pre[p].prepare.changeset.id

\* C13: an apply whose prepared changeset carries another updated_at than the stored
\* row ends with a conflict error; after a commit the stored updated_at of the
\* changeset is the 'now' of the apply, which is also the created_at of every row the
\* commit wrote.
C13_ChangesetChecked ==
    [][\A p \in Procs :
          Ends(p) =>
              /\ ChangesetOutdated(p) => outcome'[p].kind = "conflict"
              /\ outcome'[p].kind = "returned" =>
                     /\ ~ChangesetOutdated(p)
                     /\ changeset'[ChangesetOf(p)].updated_at = now[p]
                     /\ \A i \in DOMAIN New(p) :
                            \E r \in element' :
                                /\ r.sequence_id = New(p)[i].element.sequence_id
                                /\ r.created_at = now[p]
                     /\ \A r \in element' \ element :
                            r.sequence_id > get_current_sequence_id(element) =>
                                r.created_at = now[p]]_vars

\* a batch committed and stamped its changeset, and the apply of a batch prepared
\* before that in the same changeset ended with the changeset conflict alone
C13_Witness ==
    \E p, q \in Procs :
        /\ Committed(p)
        /\ changeset[ChangesetOf(p)].updated_at = now[p]
        /\ Conflicted(q)
        /\ ChangesetOf(q) = ChangesetOf(p)
        /\ ChangesetOutdated(q)
        /\ ~Stale(q)
        /\ ~ReferencedAfter(q)
        /\ outcome[q].error = "Changeset is outdated"

Frozen(r) ==
    [type |-> r.type, id |-> r.id, version |-> r.version, visible |-> r.visible,
     changeset_id |-> r.changeset_id, created_at |-> r.created_at,
     sequence_id |-> r.sequence_id]

\* C15: every step keeps every stored revision with all its fields but
\* next_sequence_id, which changes only from null to a value; member rows are never
\* removed or changed; a commit that deletes an element adds a revision with
\* visible = false and keeps the earlier revisions of the element.
C15_AppendOnly ==
    [][/\ \A r \in element :
              \E s \in element' :
                  /\ Frozen(s) = Frozen(r)
                  /\ r.next_sequence_id # Null => s.next_sequence_id = r.next_sequence_id
       /\ \A s \in element' :
              Cardinality({r \in element' : r.sequence_id = s.sequence_id}) = 1
       /\ element_member \subseteq element_member'
       /\ \A m \in element_member' \ element_member :
              m.sequence_id > get_current_sequence_id(element)
       /\ \A p \in Procs :
              Ends(p) /\ outcome'[p].kind = "returned" =>
                  \A ref \in DeletedRefs(p) :
                      /\ Cardinality(RowsOf(element', ref)) > Cardinality(RowsOf(element, ref))
                      /\ \E s \in RowsOf(element', ref) \ element : ~s.visible]_vars

\* a commit deleted a stored element: its earlier revision is kept and linked to the
\* deletion, and a revision superseded earlier still carries its link
C15_Witness ==
    \E r, s, t \in element :
        /\ ElementRef(r.type, r.id) = ElementRef(s.type, s.id)
        /\ ElementRef(s.type, s.id) = ElementRef(t.type, t.id)
        /\ r.next_sequence_id = s.sequence_id
        /\ s.next_sequence_id = t.sequence_id
        /\ ~t.visible
        /\ r.created_at < s.created_at
        /\ s.created_at < t.created_at

\* the revisions a set of rows holds
Revisions(rows) == {VersionedElementRef(r.type, r.id, r.version) : r \in rows}

\* C16 as stated: running the reader's point-in-time query again, for the same refs at
\* the same time point, gives the result it gave, whatever was committed since.
C16_SnapshotIdempotent ==
    reader.n > 0 =>
        Revisions(get_many_latest_by_typed_refs(element, reader.typed_refs,
                                                reader.point_in_time))
            = Revisions(reader.result)

\* C17: whenever an apply holds the table lock a reader that has a query left can run
\* it, and a query run while an apply holds the lock returns committed rows only: rows
\* of the store the apply locked, none of the rows the apply has written.
C17_ReadersNotBlocked ==
    [][/\ lock # NoProc /\ reader.n < MaxReads =>
              ENABLED (\E typed_refs \in ReadRefs : Read(typed_refs))
       /\ reader' # reader /\ lock # NoProc =>
              /\ reader'.result \subseteq pre[lock].element
              /\ reader'.result \cap session[lock].elements = {}]_vars

\* a query ran while an apply held the lock, and that apply then committed a revision
\* superseding a row the query returned
C17_Witness ==
    /\ reader.n > 0
    /\ reader.lock # NoProc
    /\ outcome[reader.lock].kind = "returned"
    /\ \E r \in reader.result :
           /\ r.next_sequence_id = Null
           /\ \E x \in element :
                  x.sequence_id = r.sequence_id /\ x.next_sequence_id # Null

\* C18: an apply takes the lock once, from a prepared batch; a task of the apply that
\* has ended does not run again; an apply that ends with a conflict releases the lock
\* and keeps none of its writes; and the request of a conflicted apply stays as it is
\* until its caller prepares a batch again.
C18_SingleAttempt ==
    [][\A p \in Procs :
          /\ lock' = p /\ lock # p => pc[p] = "prepared" /\ pc'[p] = "applying"
          /\ pc[p] = "applying" =>
                 \A k \in DOMAIN task[p] :
                     task[p][k] \in {"done", "failed", "none"} => task'[p][k] = task[p][k]
          /\ Ends(p) /\ outcome'[p].kind = "conflict" =>
                 lock' = NoProc /\ session'[p] = NoSession
          /\ Conflicted(p) =>
                 \/ /\ pc'[p] = pc[p]
                    /\ outcome'[p] = outcome[p]
                    /\ task'[p] = task[p]
                    /\ session'[p] = session[p]
                    /\ prepare'[p] = prepare[p]
                    /\ lock' # p
                 \/ /\ applies' = applies + 1
                    /\ pc'[p] \in {"prepared", "done"}
                    /\ task'[p] = NoTasks]_vars

\* the caller of a conflicted apply prepared again and that batch committed
C18_Witness ==
    /\ applies = MaxApplies + MaxRetries
    /\ \A p \in Procs : Committed(p)

\* the action is read by the decoder: neither an attribute of the document nor an
\* action that carries attributes only
Processed(b) == b.action # "@version" /\ ~b.attrs_only

Supported(b) == b.action \in {"create", "modify", "delete"}

\* the elements of the actions of a document from the i-th action on, in input order,
\* each with the name of its action
RECURSIVE Flat(_, _)
Flat(c, i) ==
    IF i > Len(c) THEN <<>>
    ELSE (IF Processed(c[i]) /\ Supported(c[i])
          THEN LET kept == SelectSeq(c[i].elements_data, LAMBDA d : d # IfUnused)
               IN  [k \in DOMAIN kept |-> [action |-> c[i].action, data |-> kept[k]]]
          ELSE <<>>) \o Flat(c, i + 1)

\* a create with a positive id, or a modify or delete whose declared version is 0 or
\* missing
BadElement(x) ==
    IF x.action = "create" THEN x.data.id > 0
    ELSE ~x.data.has_version \/ x.data.version = 0

\* what the decoder returns for the elements of a document that it accepts
DraftsAsDecoded(c) ==
    /\ Len(decoded.result) = Len(Flat(c, 1))
    /\ \A k \in DOMAIN decoded.result :
           LET x == Flat(c, 1)[k]
               d == decoded.result[k]
           IN  /\ d.type = x.data.key
               /\ d.id = x.data.id
               /\ x.action = "create" => d.version = 1
               /\ x.action # "create" => d.version = x.data.version + 1
               /\ x.action = "delete" => ~d.visible
               /\ x.action # "delete" => d.visible = x.data.visible

RemovesAllMembers(p) ==
    /\ Len(Orig(p)) = 1
    /\ Orig(p)[1].element.type = "way"
    /\ Orig(p)[1].element.id > 0
    /\ Orig(p)[1].element.visible
    /\ Orig(p)[1].element.members = <<>>
    /\ pre[p].prepare.reference_check_element_refs # {}

\* in the store (E, M) the current revision of a way other than the one the batch of p
\* updates, committed after sequence number after, lists a member the batch removes
OtherWayLists(p, E, M, after) ==
    \E w \in E :
        /\ w.type = "way"
        /\ w.next_sequence_id = Null
        /\ w.sequence_id > after
        /\ ElementRef(w.type, w.id) # Orig(p)[1].element_ref
        /\ MemberRefs(M, w.sequence_id) \cap pre[p].prepare.reference_check_element_refs # {}

\* the apply of p ends with a commit that leaves the way at the next version
CommitsNextVersion(p) ==
    /\ outcome'[p].kind = "returned"
    /\ CurrentVersion(element', Orig(p)[1].element_ref)
           = CurrentVersion(element, Orig(p)[1].element_ref) + 1
    /\ \A r \in CurrentOf(element', Orig(p)[1].element_ref) :
           MemberRefs(element_member', r.sequence_id) = {}

\* C20 as stated: a batch that updates a way to a revision with no members, nothing
\* else being in conflict, commits as the next version when no other way lists a
\* removed member, and ends with a conflict error when a different way lists one.
C20_ConflictWhenListed ==
    [][\A p \in Procs :
          Ends(p) /\ RemovesAllMembers(p) /\ ~Stale(p) /\ ~ChangesetOutdated(p) =>
              IF OtherWayLists(p, element, element_member, 0)
              THEN outcome'[p].kind = "conflict"
              ELSE CommitsNextVersion(p)]_vars

\* C20 amended: such a batch commits as the next version when no revision committed
\* after its snapshot lists a removed member, also when a way committed before the
\* snapshot still lists one; it ends with the still-referenced conflict error, the
\* store unchanged, when a revision committed after the snapshot lists a removed
\* member, as the current revision of a different way then does.
C20_ConflictWhenListedSince ==
    [][\A p \in Procs :
          Ends(p) /\ RemovesAllMembers(p) /\ ~Stale(p) /\ ~ChangesetOutdated(p) =>
              /\ OtherWayLists(p, element, element_member, pre[p].prepare.at_sequence_id)
                     => ReferencedAfter(p)
              /\ IF ReferencedAfter(p)
                 THEN /\ outcome'[p].kind = "conflict"
                      /\ outcome'[p].error = "Element is referenced"
                      /\ StoreIsPre(p)
                 ELSE CommitsNextVersion(p)]_vars

\* a batch that removed all members of a way committed while a different way, committed
\* before the snapshot of the batch, lists a removed member
C20_Witness ==
    \E p \in Procs :
        /\ Committed(p)
        /\ RemovesAllMembers(p)
        /\ OtherWayLists(p, pre[p].element, pre[p].element_member, 0)
        /\ OtherWayLists(p, element, element_member, 0)

\* the three checks of the apply of p have completed successfully
ChecksPassed(p) ==
    /\ task[p].latest = "done"
    /\ task[p].unreferenced \in {"done", "none"}
    /\ task[p].changeset = "done"

\* the step gives a sequence_id or an assigned id to an element of the batch of p
AssignsTo(p) ==
    /\ pc[p] = "applying"
    /\ \E i \in DOMAIN prepare[p].apply_elements :
           LET old == prepare[p].apply_elements[i].element
               new == prepare'[p].apply_elements[i].element
           IN  \/ old.sequence_id = Null /\ new.sequence_id # Null
               \/ old.id < 0 /\ new.id > 0

\* C21 as stated: within one apply no element of the batch is given a sequence_id or
\* an assigned id before the optimistic check, the reference check and the changeset
\* check-and-update have all completed successfully.
C21_AssignAfterChecks ==
    [][\A p \in Procs : AssignsTo(p) => ChecksPassed(p)]_vars

\* C22: in a committed batch the i-th element (counted from 1) is stored with
\* sequence_id S + i, S being the largest sequence_id of the store the apply locked;
\* the sequence_ids of the batch are consecutive in batch order, and every member row
\* carries the sequence_id of the revision that owns it.
C22_SequenceInBatchOrder ==
    /\ \A p \in Procs :
           Committed(p) =>
               \A i \in DOMAIN New(p) :
                   LET el == New(p)[i].element
                   IN  /\ el.sequence_id = get_current_sequence_id(pre[p].element) + i
                       /\ \E r \in element :
                              /\ r.sequence_id = el.sequence_id
                              /\ r.type = el.type
                              /\ r.version = el.version
                              /\ r.id = el.id
                       /\ \A k \in DOMAIN el.members :
                              /\ el.members[k].sequence_id = el.sequence_id
                              /\ MemberRow(el.members[k]) \in element_member
                       /\ {m.order : m \in {x \in element_member :
                                               x.sequence_id = el.sequence_id}}
                              = {k - 1 : k \in DOMAIN el.members}
    /\ \A m \in element_member : \E r \in element : r.sequence_id = m.sequence_id

\* a batch of two elements, the second a way with a member, committed on a store that
\* another commit had extended after the batch was prepared
C22_Witness ==
    \E p \in Procs :
        /\ Committed(p)
        /\ Len(New(p)) = 2
        /\ New(p)[2].element.members # <<>>
        /\ get_current_sequence_id(pre[p].element) > pre[p].prepare.at_sequence_id
        /\ New(p)[2].element.sequence_id = New(p)[1].element.sequence_id + 1

\* the positions of the batch of p that touch ref, and the one that follows position i
PositionsOf(p, ref) == {i \in DOMAIN Orig(p) : Orig(p)[i].element_ref = ref}
LaterPositions(p, i) == {j \in PositionsOf(p, Orig(p)[i].element_ref) : j > i}

\* the refs of type t whose previous revision the batch of p found in the store: their
\* first element in the batch is not a create
LinkedRemotely(p, t) ==
    {ref \in {Orig(p)[i].element_ref : i \in DOMAIN Orig(p)} :
        ref[1] = t /\ Orig(p)[FirstPos(p, ref)].element.version > 1}

\* C23: every stored revision that has a revision of the next version of its ref
\* carries that revision's sequence_id, greater than its own, as next_sequence_id; in
\* a committed batch the refs queued for the batched update are the refs whose
\* previous revision was written by an earlier apply, each queued once, that revision
\* being linked to the first new revision of the ref; a revision superseded inside the
\* batch is linked to its successor in the batch.
C23_ChainLinked ==
    /\ \A r, s \in element :
           r.type = s.type /\ r.id = s.id /\ s.version = r.version + 1 =>
               r.next_sequence_id = s.sequence_id /\ r.next_sequence_id > r.sequence_id
    /\ \A p \in Procs :
           Committed(p) =>
               /\ \A t \in Types :
                      LET ids == local[p].update_type_ids[t]
                      IN  /\ Range(ids) = {ref[2] : ref \in LinkedRemotely(p, t)}
                          /\ Len(ids) = Cardinality(LinkedRemotely(p, t))
               /\ \A t \in Types : \A ref \in LinkedRemotely(p, t) :
                      \A r \in CurrentOf(pre[p].element, ref) :
                          \E s \in element :
                              /\ s.sequence_id = r.sequence_id
                              /\ s.next_sequence_id
                                     = New(p)[FirstPos(p, ref)].element.sequence_id
               /\ \A i \in DOMAIN New(p) :
                      New(p)[i].element.next_sequence_id
                          = IF LaterPositions(p, i) = {} THEN Null
                            ELSE New(p)[Min(LaterPositions(p, i))].element.sequence_id

\* a committed batch updated a stored ref twice: the stored revision was linked by the
\* batched update, queued once, and the first new revision directly to the second
C23_Witness ==
    \E p \in Procs :
        /\ Committed(p)
        /\ \E ref \in LinkedRemotely(p, "node") :
               /\ Cardinality(PositionsOf(p, ref)) = 2
               /\ Len(local[p].update_type_ids["node"]) = 1
               /\ \E r, s, t \in RowsOf(element, ref) :
                      /\ r.sequence_id <= get_current_sequence_id(pre[p].element)
                      /\ r.next_sequence_id = s.sequence_id
                      /\ s.next_sequence_id = t.sequence_id
                      /\ t.next_sequence_id = Null

\* the step is the one in which the apply of p reads the counters
ReadsCounters(p) == pc[p] = "applying" /\ task[p].elements = "read" /\ task'[p].elements # "read"

\* the ids the apply of p gave to placeholders of type t
AssignedIds(m, t) == {m[ref] : ref \in {x \in DOMAIN m : x[1] = t}}

\* C24: an apply reads the counters while it holds the lock; the sequence counter it
\* uses is the largest sequence_id of the committed store at that moment and its
\* per-type id counters start from the largest committed ids at that moment, which
\* are those left by the last committed apply, whatever the store held when the batch
\* was prepared or when another apply read its counters.
C24_CountersReadUnderLock ==
    [][\A p \in Procs :
          ReadsCounters(p) =>
              /\ lock = p
              /\ local'[p].current_sequence_id = get_current_sequence_id(element)
              /\ element = pre[p].element
              /\ \A t \in Types :
                     LET ids == AssignedIds(local'[p].assigned_id_map, t)
                     IN  ids = (get_current_ids(element)[t] + 1)
                                   .. (get_current_ids(element)[t] + Cardinality(ids))
              /\ \A q \in Procs \ {p} :
                     Committed(q) /\ pre[q].element # element =>
                         /\ local'[p].current_sequence_id > local[q].current_sequence_id
                         /\ \A t \in Types :
                                AssignedIds(local'[p].assigned_id_map, t)
                                    \cap AssignedIds(local[q].assigned_id_map, t) = {}]_vars

\* two requests prepared a create of a node against the same snapshot and both
\* committed: the later apply read counters that the earlier commit had moved
C24_Witness ==
    \E p, q \in Procs :
        /\ p # q
        /\ Committed(p)
        /\ Committed(q)
        /\ pre[p].prepare.at_sequence_id = pre[q].prepare.at_sequence_id
        /\ local[q].current_sequence_id > pre[q].prepare.at_sequence_id
        /\ AssignedIds(local[p].assigned_id_map, "node") # {}
        /\ AssignedIds(local[q].assigned_id_map, "node") # {}
        /\ \A i \in AssignedIds(local[p].assigned_id_map, "node"),
              j \in AssignedIds(local[q].assigned_id_map, "node") : i < j

\* the revisions of the entries of a result of find_many_by_refs, None kept in place
EntryRevisions(result) ==
    [i \in DOMAIN result |->
        IF result[i] = None THEN <<>>
        ELSE VersionedElementRef(result[i].type, result[i].id, result[i].version)]

\* element_full evaluated as a whole on the store and at the time point of one query
FullAtOnce(sn, element_ref) ==
    LET elements == get_many_latest_by_typed_refs(sn.element, {element_ref}, sn.point_in_time)
        members  == UNION {MemberRefs(sn.element_member, el.sequence_id) : el \in elements}
    IN  IF elements = {} THEN [status |-> "not_found", element |-> {}, rows |-> {}]
        ELSE IF \E el \in elements : ~el.visible
             THEN [status |-> "gone", element |-> {}, rows |-> {}]
             ELSE [status |-> "ok", element |-> Revisions(elements),
                   rows |-> Revisions(get_many_latest_recurse_ways(
                                sn.element, sn.element_member, members, sn.point_in_time))]

\* find_many_by_refs without a limit evaluated as a whole on the store and at the time
\* point of one query
FindAtOnce(sn, refs) ==
    LET versioned == get_many_by_versioned_refs(
                         sn.element, {ref \in Range(refs) : IsVersioned(ref)})
        typed     == get_many_latest_by_typed_refs(
                         sn.element, {ref \in Range(refs) : ~IsVersioned(ref)},
                         sn.point_in_time)
        Found(ref) == IF IsVersioned(ref)
                      THEN {el \in versioned :
                               VersionedElementRef(el.type, el.id, el.version) = ref}
                      ELSE {el \in typed : ElementRef(el.type, el.id) = ref}
        found     == {ref \in Range(refs) : Found(ref) # {}}
    IN  EntryRevisions(CollectByRefs(refs, [ref \in found |-> CHOOSE el \in Found(ref) : TRUE],
                                     Null))

\* C25 as stated: the result of every logical read is the result of evaluating all its
\* queries on one store at one time point, that of one of its queries: a read with way
\* recursion, the full read of an element and a mixed read of versioned and
\* unversioned refs never combine results of two time points between which an apply
\* committed.
C25_OneSnapshot ==
    logical.done /\ logical.seen # <<>> =>
        \E k \in DOMAIN logical.seen :
            LET sn == logical.seen[k]
            IN  CASE logical.kind = "latest" ->
                         Revisions(logical.rows)
                             = Revisions(get_many_latest_recurse_ways(
                                   sn.element, sn.element_member,
                                   logical.members_element_refs, sn.point_in_time))
                  [] logical.kind = "full" ->
                         [status |-> logical.status, element |-> Revisions(logical.element),
                          rows |-> Revisions(logical.rows)]
                             = FullAtOnce(sn, logical.refs[1])
                  [] logical.kind = "find" ->
                         logical.limit = Null =>
                             EntryRevisions(logical.result) = FindAtOnce(sn, logical.refs)

\* the revision the queries of the read found for the i-th ref, None when they found none
FoundFor(i) ==
    IF logical.refs[i] \in DOMAIN logical.ref_map THEN logical.ref_map[logical.refs[i]]
    ELSE None

\* the positions of the refs that yield an entry: a ref that was not found, or the
\* first ref in input order that resolves to its revision
Yielding ==
    {i \in DOMAIN logical.refs :
        \/ FoundFor(i) = None
        \/ ~\E j \in 1..(i - 1) :
               /\ FoundFor(j) # None
               /\ Revisions({FoundFor(j)}) = Revisions({FoundFor(i)})}

\* C26: find_many_by_refs returns the entries of the yielding refs in the order of the
\* given refs, None standing for a ref that was not found; no revision occurs twice in
\* the result, of a versioned and an unversioned ref that resolve to one revision only
\* the first yields an entry; the result has at most limit entries.
C26_OrderedWithoutDuplicates ==
    logical.done /\ logical.kind = "find" =>
        LET result == logical.result
            size   == Cardinality(Yielding)
        IN  /\ Len(result) = IF logical.limit # Null /\ logical.limit < size
                             THEN logical.limit ELSE size
            /\ \A k \in DOMAIN result :
                   \E i \in Yielding :
                       /\ Cardinality({j \in Yielding : j <= i}) = k
                       /\ result[k] = FoundFor(i)
            /\ \A k, l \in DOMAIN result :
                   /\ k # l
                   /\ result[k] # None
                   /\ result[l] # None
                   => Revisions({result[k]}) # Revisions({result[l]})
            /\ logical.limit # Null => Len(result) <= logical.limit

\* a versioned ref and an unversioned ref that was given after it resolved to the same
\* revision, and the result holds that revision once
C26_Witness ==
    /\ logical.done
    /\ logical.kind = "find"
    /\ logical.limit = Null
    /\ Len(logical.refs) = 2
    /\ IsVersioned(logical.refs[1])
    /\ ~IsVersioned(logical.refs[2])
    /\ FoundFor(1) # None
    /\ Revisions({FoundFor(1)}) = Revisions({FoundFor(2)})
    /\ Len(logical.result) = 1
    /\ logical.result[1] = FoundFor(1)

\* C27 as stated: the value a read of a decorated property returns is the value of
\* the property for the current value of the watched attribute, after any writes of
\* the attribute and reads of the decorated properties of the instance.
C27_NeverStale ==
    instance.got # NoGot => instance.got.value = Func(instance.got.name, instance.got.watch)

\* the member ref is dangling in the store (E, M): the element it names has no revision,
\* or its current revision is a deletion
Dangling(E, ref) ==
    \/ RowsOf(E, ref) = {}
    \/ \E r \in CurrentOf(E, ref) : ~r.visible

\* the batch of p, as prepared, adds a reference to ref / deletes ref
AddsReference(p, ref) ==
    \E i \in DOMAIN Orig(p) : \E k \in DOMAIN Orig(p)[i].element.members :
        ElementRef(Orig(p)[i].element.members[k].type, Orig(p)[i].element.members[k].id) = ref

\* the batches of p and q were both prepared before either of their applies took the lock
Concurrent(p, q) ==
    /\ p # q
    /\ Applied(p)
    /\ Applied(q)
    /\ pre[p].prepare.at_sequence_id = pre[q].prepare.at_sequence_id
    /\ \E r \in {p, q} :
           get_current_sequence_id(pre[r].element) = pre[r].prepare.at_sequence_id

\* C28 as stated: in every committed store no visible current revision has a member
\* that names an element without a revision or whose current revision is a deletion, and
\* of two concurrent batches of which one deletes an element and the other adds a
\* reference to it at most one commits.
C28_NoDanglingMember ==
    /\ \A w \in element :
           w.next_sequence_id = Null /\ w.visible =>
               \A ref \in MemberRefs(element_member, w.sequence_id) : ~Dangling(element, ref)
    /\ \A p, q \in Procs :
           /\ Concurrent(p, q)
           /\ \E ref \in DeletedRefs(p) : AddsReference(q, ref)
           => ~(Committed(p) /\ Committed(q))

\* the Prepare Results of p and q were made against the same snapshot and observed the
\* same updated_at of the same changeset
SameChangesetObserved(p, q) ==
    /\ p # q
    /\ Applied(p)
    /\ Applied(q)
    /\ pre[p].prepare.at_sequence_id = pre[q].prepare.at_sequence_id
    /\ pre[p].prepare.changeset.id = pre[q].prepare.changeset.id
    /\ pre[p].prepare.changeset.updated_at = pre[q].prepare.changeset.updated_at

\* C29 as stated: of two Prepare Results that observed the same updated_at of the same
\* changeset at most one apply commits, the apply of the other ending with a conflict
\* error, also when the batches touch disjoint elements and the applies happen within
\* one clock reading.
C29_AtMostOneCommits ==
    \A p, q \in Procs :
        SameChangesetObserved(p, q) /\ Committed(p) => Conflicted(q)

\* the step by which apply() of p leaves the Prepare Result it was handed
BeginsApply(p) == pc[p] = "prepared" /\ pc'[p] # "prepared"

\* the step takes no lock, runs no task, stages nothing and writes nothing
NoEffect ==
    UNCHANGED <<element, element_member, changeset, lock, task, local, session, now, prepare>>

\* C30: applying a Prepare Result with nothing staged returns the empty map in one step
\* that takes no lock, runs no check, writes no row and leaves every changeset as it was,
\* with or without a changeset set; a Prepare Result with staged elements and no changeset
\* ends with an assertion error in one step of the same kind; whoever holds the lock has
\* staged elements and a changeset.
C30_EmptyApplyHasNoEffect ==
    [][\A p \in Procs :
           /\ BeginsApply(p) /\ prepare[p].apply_elements = <<>> =>
                  /\ pc'[p] = "done"
                  /\ outcome'[p] = [NoOutcome EXCEPT !.kind = "returned"]
                  /\ NoEffect
           /\ BeginsApply(p) /\ prepare[p].apply_elements # <<>>
                  /\ prepare[p].changeset = NoChangeset =>
                  /\ pc'[p] = "done"
                  /\ outcome'[p].kind = "error"
                  /\ outcome'[p].error = "AssertionError"
                  /\ NoEffect
           /\ lock' = p =>
                  /\ prepare'[p].apply_elements # <<>>
                  /\ prepare'[p].changeset # NoChangeset]_vars

\* one request was returned the empty map for a Prepare Result without a changeset while
\* the other was refused a staged batch for want of one
C30_Witness ==
    /\ pc["p1"] = "done"
    /\ prepare["p1"].apply_elements = <<>>
    /\ prepare["p1"].changeset = NoChangeset
    /\ outcome["p1"] = [NoOutcome EXCEPT !.kind = "returned"]
    /\ pc["p2"] = "done"
    /\ prepare["p2"].apply_elements # <<>>
    /\ prepare["p2"].changeset = NoChangeset
    /\ outcome["p2"].error = "AssertionError"
    /\ lock = NoProc

====
